---- MODULE Spec2Model ----
(***************************************************************************)
(* Session / transaction manager of the isolation-levels demo backend     *)
(* (SessionManagerService) together with the part of the PostgreSQL       *)
(* engine its statements act on: per-connection transactions over a       *)
(* committed table state.                                                  *)
(*                                                                         *)
(* Every public operation of the service is one action.  The service      *)
(* documents that a caller never pipelines two operations on one session, *)
(* and an operation touches only its own session's descriptor plus the    *)
(* engine, whose statements are atomic; an operation is therefore one     *)
(* step, taken at the instant the engine executes its statement.          *)
(* Every statement sent to the engine has a nondeterministic verdict      *)
(* (eng): the engine may reject it (syntax error, serialization failure,  *)
(* deadlock, lost connection).                                             *)
(***************************************************************************)
EXTENDS Integers, Sequences, FiniteSets, TLC

(* ------------------------------ bounds -------------------------------- *)

\* Number of session ids generateSessionId can hand out in one run.
MaxSessions == 2

(* --------------------------- input domains ---------------------------- *)

SessionIds == 1..MaxSessions
RowIds == {1}

\* The levels callers ask for, out of type IsolationLevel: the default, and
\* one whose transactions read a snapshot.  (The engine runs READ UNCOMMITTED
\* as READ COMMITTED, and SERIALIZABLE reads as REPEATABLE READ does.)
IsolationLevels == {"READ COMMITTED", "REPEATABLE READ"}

\* A default other than the one createSession declares.
OtherDefaultLevel == "REPEATABLE READ"

DefaultIsolationLevel == "READ COMMITTED"

\* createSession's optional parameter: a level, or nothing.
Undefined == "undefined"

ALLOWED_TABLES == {"accounts", "products"}

\* Table names offered to getCommittedData: the allowed ones and another.
TableNames == ALLOWED_TABLES \cup {"test_table"}

\* Cell values of a row (its non-key columns taken together).
\* The seed value and the value the write statements carry.
SeedVal == "v0"
NewVal == "v1"
Vals == {SeedVal, NewVal}
NoRow == "norow"
Untouched == "untouched"
Cells == Vals \cup {NoRow}

\* The seed data of setup.sql: every row present with its initial value.
SeedTable == [r \in RowIds |-> SeedVal]
EmptyRows == [r \in RowIds |-> NoRow]
NoWrites == [r \in RowIds |-> Untouched]

VARIABLES
    sessions,       \* the registry: sessionId -> SessionState
    issued,         \* session ids generateSessionId has produced so far
    utilityClient,  \* "null" | "connected" | "broken" (connect failed)
    connected,      \* session connections connected and not yet ended
    pgTx,           \* engine: per connection, its transaction
    committed,      \* engine: committed content of the accounts table
    ev,             \* the operation completed last and what it returned
    modifiedRows,   \* row-tracking service: sessionId -> ids of accounts rows
    inflight,       \* row-tracking service: sessionId -> its executeQuery call
                    \* that is between two awaits
    uncommitted,    \* row-tracking service: the uncommitted snapshot carried
                    \* by the response of the call completed last
    gen,            \* id generation: the clock, the registry keyed by the
                    \* generated ids, the clients constructed and live
    gw,             \* gateway: socketSessions, the handlers between two
                    \* awaits, and the response sent last
    parsed,         \* classifier: the text submitted last and its command
    changes,        \* frontend: the input of computePendingChanges called
                    \* last and its result
    store,          \* frontend store: logId and each terminal's log
    util,           \* committed reader: the utilityClient field, the clients
                    \* constructed for it and the calls that use it
    front,          \* frontend store: each terminal's session entry and
                    \* uncommitted snapshot, and the requests in flight
    hook,           \* useCommittedData: the rows held and the messages on
                    \* their way to the hook
    scenario        \* useScenario: the active scenario and currentStep

vars == <<sessions, issued, utilityClient, connected, pgTx, committed, ev,
          modifiedRows, inflight, uncommitted, gen, gw, parsed, changes, store,
          util, front, hook, scenario>>

\* The state only the row-tracking service has.
trackVars == <<modifiedRows, inflight, uncommitted>>

\* The state of the session operations and the engine.
serviceVars == <<sessions, issued, utilityClient, connected, pgTx, committed, ev>>

\* The state of the models of single parts of the program.
partVars == <<gen, gw, parsed, changes, store, util, front, hook, scenario>>

\* What the model of one part leaves alone.
exceptGen == <<serviceVars, trackVars, gw, parsed, changes, store, util, front, hook, scenario>>
exceptGateway == <<trackVars, gen, parsed, changes, store, util, front, hook, scenario>>
exceptParsed == <<serviceVars, trackVars, gen, gw, changes, store, util, front, hook, scenario>>
exceptChanges == <<serviceVars, trackVars, gen, gw, parsed, store, util, front, hook, scenario>>
exceptStore == <<serviceVars, trackVars, gen, gw, parsed, changes, util, front, hook, scenario>>
exceptUtility == <<serviceVars, trackVars, gen, gw, parsed, changes, store, front, hook, scenario>>
exceptFront == <<serviceVars, trackVars, gen, gw, parsed, changes, store, util, hook, scenario>>
exceptHook == <<serviceVars, trackVars, gen, gw, parsed, changes, store, util, front, scenario>>
exceptScenario == <<serviceVars, trackVars, gen, gw, parsed, changes, store, util, hook>>

(* ------------------------------ engine -------------------------------- *)
(* What PostgreSQL does with the statements the service sends on a        *)
(* connection.  A connection is named by the id of the session owning it. *)

NoTx == [status |-> "none", level |-> DefaultIsolationLevel,
         snapped |-> FALSE, snap |-> EmptyRows, writes |-> NoWrites]

\* Levels whose transactions read one snapshot taken at their first statement.
SnapshotLevels == {"REPEATABLE READ", "SERIALIZABLE"}

\* The statements sent on the wire.
WireBegin(level) == [cmd |-> "BEGIN", level |-> level, kind |-> "none", row |-> 1, val |-> NoRow]
WireEnd(command) == [cmd |-> command, level |-> Undefined, kind |-> "none", row |-> 1, val |-> NoRow]
WireSql(stmt) == [cmd |-> "SQL", level |-> Undefined, kind |-> stmt.kind, row |-> stmt.row, val |-> stmt.val]
WireTerminate == [cmd |-> "END", level |-> Undefined, kind |-> "none", row |-> 1, val |-> NoRow]

\* The accounts table as connection c sees it: its own writes over its
\* snapshot, or over the committed state.
PgView(tx, data, c) ==
    LET t == tx[c]
        base == IF t.status = "open" /\ t.snapped THEN t.snap ELSE data
    IN [r \in RowIds |->
          IF t.status = "open" /\ t.writes[r] # Untouched THEN t.writes[r] ELSE base[r]]

\* Another connection's open transaction holds an uncommitted write of row r.
PgLocked(tx, c, r) ==
    \E d \in DOMAIN tx : d # c /\ tx[d].status = "open" /\ tx[d].writes[r] # Untouched

\* Row r changed in the committed state after c's snapshot was taken.
PgStale(tx, data, c, r) ==
    /\ tx[c].status = "open"
    /\ tx[c].snapped
    /\ tx[c].writes[r] = Untouched
    /\ tx[c].snap[r] # data[r]

\* Whether the engine can carry out wire statement w on connection c: FALSE
\* where it raises an error whatever else happens (invalid SQL, duplicate
\* key, serialization failure, a lock it would wait for and time out on, a
\* statement in an aborted transaction).
PgCanSucceed(tx, data, c, w) ==
    CASE w.cmd \in {"BEGIN", "COMMIT", "ROLLBACK", "END"} -> TRUE
      [] tx[c].status = "aborted" -> FALSE
      [] w.kind = "invalid" -> FALSE
      [] w.kind \in {"select", "start"} -> TRUE
      [] w.kind \in {"update", "delete"} ->
            \/ PgView(tx, data, c)[w.row] = NoRow
            \/ ~PgLocked(tx, c, w.row) /\ ~PgStale(tx, data, c, w.row)
      [] w.kind = "insert" ->
            /\ ~PgLocked(tx, c, w.row)
            /\ IF tx[c].status = "open" /\ tx[c].writes[w.row] # Untouched
               THEN tx[c].writes[w.row] = NoRow
               ELSE data[w.row] = NoRow
      [] OTHER -> FALSE

\* The row content a successful data statement leaves in row w.row.
PgWritten(tx, data, c, w) ==
    LET cur == PgView(tx, data, c)[w.row]
    IN CASE w.kind = "update" -> IF cur = NoRow THEN NoRow ELSE w.val
         [] w.kind = "delete" -> NoRow
         [] w.kind = "insert" -> w.val
         [] OTHER -> cur

PgWrites(w) == w.cmd = "SQL" /\ w.kind \in {"update", "delete", "insert"}

\* The transactions after connection c's statement w, ok telling whether the
\* engine carried it out.
PgTxAfter(tx, data, c, w, ok) ==
    LET t == tx[c] IN
    CASE w.cmd = "BEGIN" ->
            IF ok /\ t.status = "none"
            THEN [tx EXCEPT ![c] = [NoTx EXCEPT !.status = "open", !.level = w.level]]
            ELSE tx
      [] w.cmd \in {"COMMIT", "ROLLBACK", "END"} ->
            \* committed, rolled back, or (rejected, connection gone) aborted
            \* by the server: the transaction is over either way
            [tx EXCEPT ![c] = NoTx]
      [] w.kind = "start" /\ ok ->
            \* START TRANSACTION: opens a transaction at the server's default
            \* level; inside a transaction only a warning
            IF t.status = "none"
            THEN [tx EXCEPT ![c] = [NoTx EXCEPT !.status = "open", !.level = Undefined]]
            ELSE tx
      [] t.status = "none" -> tx
      [] ~ok -> [tx EXCEPT ![c].status = "aborted"]
      [] OTHER ->
            LET first == t.level \in SnapshotLevels /\ ~t.snapped
                touched == PgWrites(w) /\ PgView(tx, data, c)[w.row] # PgWritten(tx, data, c, w)
            IN [tx EXCEPT
                  ![c].snapped = t.snapped \/ first,
                  ![c].snap = IF first THEN data ELSE t.snap,
                  ![c].writes = IF touched
                                THEN [t.writes EXCEPT ![w.row] = PgWritten(tx, data, c, w)]
                                ELSE t.writes]

\* The committed accounts table after connection c's statement w.
PgDataAfter(tx, data, c, w, ok) ==
    LET t == tx[c] IN
    CASE w.cmd = "COMMIT" /\ ok /\ t.status = "open" ->
            [r \in RowIds |-> IF t.writes[r] # Untouched THEN t.writes[r] ELSE data[r]]
      [] PgWrites(w) /\ ok /\ t.status = "none" ->
            [data EXCEPT ![w.row] = PgWritten(tx, data, c, w)]
      [] OTHER -> data

\* The rows a statement returns.
PgRows(tx, data, c, w, ok) ==
    IF ok /\ w.cmd = "SQL" /\ w.kind = "select" THEN PgView(tx, data, c) ELSE EmptyRows

(* ------------------------------ service ------------------------------- *)

UtilityConn == 0
Conns == SessionIds \cup {UtilityConn}

\* SQL text is a sequence of characters.
TextBegin == <<"B", "E", "G", "I", "N">>
TextBeginLower == <<" ", "b", "e", "g", "i", "n", ";">>
TextBeginLevel == <<"B", "E", "G", "I", "N", " ", "R", "O">>
TextCommit == <<"C", "O", "M", "M", "I", "T">>
TextCommitSemi == <<"c", "o", "m", "m", "i", "t", ";", " ">>
TextRollback == <<"R", "O", "L", "L", "B", "A", "C", "K">>
TextRollbackSemi == <<"R", "o", "l", "l", "b", "a", "c", "k", ";">>
TextSelect == <<"S", "E", "L", "E", "C", "T">>
TextSelec == <<"S", "E", "L", "E", "C">>
TextUpdate == <<"U", "P", "D", "A", "T", "E">>
TextInsert == <<"I", "N", "S", "E", "R", "T">>
TextDelete == <<"D", "E", "L", "E", "T", "E">>
TextStart == <<"S", "T", "A", "R", "T", " ", "T", "R", "A", "N", "S", "A", "C", "T", "I", "O", "N">>

\* What the engine makes of a text, were it sent as it is.
Stmt(text, kind, row, val) == [text |-> text, kind |-> kind, row |-> row, val |-> val]

\* The statements callers submit: transaction control in several spellings,
\* reads and writes of the accounts table, and a statement the engine rejects.
SqlInputs ==
    {Stmt(t, "none", 1, NoRow) : t \in {TextBeginLower, TextCommit, TextRollbackSemi}}
    \cup {Stmt(TextSelect, "select", 1, NoRow), Stmt(TextSelec, "invalid", 1, NoRow)}
    \cup {Stmt(TextUpdate, "update", r, NewVal) : r \in RowIds}
    \cup {Stmt(TextInsert, "insert", r, NewVal) : r \in RowIds}
    \cup {Stmt(TextDelete, "delete", r, NoRow) : r \in RowIds}

\* A statement that opens a transaction in the engine under another name
\* than BEGIN.
StartStmt == Stmt(TextStart, "start", 1, NoRow)

\* The statements of SqlInputs and START TRANSACTION.
AnySqlInputs == SqlInputs \cup {StartStmt}

LowerCase == <<"a", "b", "c", "d", "e", "f", "g", "h", "i", "j", "k", "l", "m",
               "n", "o", "p", "q", "r", "s", "t", "u", "v", "w", "x", "y", "z">>
UpperCase == <<"A", "B", "C", "D", "E", "F", "G", "H", "I", "J", "K", "L", "M",
               "N", "O", "P", "Q", "R", "S", "T", "U", "V", "W", "X", "Y", "Z">>
WhiteSpace == {" ", "\t", "\n", "\r"}

\* String.prototype.trim
RECURSIVE TrimStart(_)
TrimStart(sql) ==
    IF sql # <<>> /\ Head(sql) \in WhiteSpace THEN TrimStart(Tail(sql)) ELSE sql

RECURSIVE TrimEnd(_)
TrimEnd(sql) ==
    IF sql # <<>> /\ sql[Len(sql)] \in WhiteSpace
    THEN TrimEnd(SubSeq(sql, 1, Len(sql) - 1))
    ELSE sql

Trim(sql) == TrimEnd(TrimStart(sql))

\* String.prototype.toUpperCase
ToUpperCase(sql) ==
    [i \in 1..Len(sql) |->
        IF \E k \in 1..Len(LowerCase) : LowerCase[k] = sql[i]
        THEN UpperCase[CHOOSE k \in 1..Len(LowerCase) : LowerCase[k] = sql[i]]
        ELSE sql[i]]

\* A classifier that keeps a trailing semicolon.
keepSemicolon(sql) == sql

\* replace(/;$/, '')
StripSemicolon(sql) ==
    IF sql # <<>> /\ sql[Len(sql)] = ";" THEN SubSeq(sql, 1, Len(sql) - 1) ELSE sql

\* String.prototype.startsWith
StartsWith(sql, prefix) ==
    Len(sql) >= Len(prefix) /\ SubSeq(sql, 1, Len(prefix)) = prefix

Null == "null"

parseTransactionCommand(sql) ==
    LET normalized == StripSemicolon(ToUpperCase(Trim(sql)))
    IN IF normalized = TextBegin \/ StartsWith(normalized, TextBegin \o <<" ">>)
       THEN "BEGIN"
       ELSE IF normalized = TextCommit THEN "COMMIT"
       ELSE IF normalized = TextRollback THEN "ROLLBACK"
       ELSE Null

\* parseTransactionCommand over the submitted texts, computed once.
CommandOf == [sql \in AnySqlInputs |-> parseTransactionCommand(sql.text)]

\* What an operation returned: the operation and session, the session as the
\* call found it (pre), the statements it sent on the session's connection,
\* how it ended ("result", "error", "throw" for a rejected promise, "void"),
\* the error message, the rows returned, and whether the engine carried out
\* every statement sent.
Event(op, sid, pre, sent, res, msg, rows, engOk) ==
    [op |-> op, sid |-> sid, pre |-> pre, sent |-> sent, res |-> res,
     msg |-> msg, rows |-> rows, engOk |-> engOk]

EngineError == "engine error"

InTx(sid) == sid \in DOMAIN sessions /\ sessions[sid].inTransaction

\* Connection c's transaction holds uncommitted writes.
Dirty(c) == pgTx[c].status = "open" /\ \E r \in RowIds : pgTx[c].writes[r] # Untouched

\* The session as a call finds it: whether it is registered, its flag, and
\* whether its connection holds uncommitted writes.
Pre(sid) == [registered |-> sid \in DOMAIN sessions, inTransaction |-> InTx(sid), dirty |-> Dirty(sid)]

\* getSessionState(sessionId)
getSessionState(sessionId) ==
    IF sessionId \in DOMAIN sessions THEN sessions[sessionId] ELSE Null

\* A lookup that finds no session and lets the call return normally.
sessionNotFoundIgnored(op, sessionId) ==
    Event(op, sessionId, Pre(sessionId), <<>>, "result", "", EmptyRows, TRUE)

\* `if (!session) return { error: { message: 'Session not found' } }`
sessionNotFound(op, sessionId) ==
    Event(op, sessionId, Pre(sessionId), <<>>, "error", "Session not found", EmptyRows, TRUE)

\* A response without an uncommitted snapshot.
NoSnapshot == [present |-> FALSE, tables |-> EmptyRows, modifiedRows |-> {}]

\* Nothing generated, registered or constructed yet.
NoIds == [now |-> 0, sessions |-> <<>>, clients |-> {}, made |-> 0, utility |-> 0]

\* Nothing classified yet.
NoParse == [done |-> FALSE, text |-> <<>>, expected |-> Null, command |-> Null]

\* computePendingChanges not called yet.
NoChanges == [done |-> FALSE]

\* The store as created: `let logId = 0`, every terminal's log empty.
NoStore == [logId |-> 0, log |-> [t \in {1, 2, 3} |-> <<>>]]

\* No response sent yet.
NoResponse == [handler |-> "none", sessionId |-> 0, error |-> FALSE, hasState |-> FALSE,
               inTransaction |-> FALSE, registered |-> FALSE, broadcast |-> {}]

\* The gateway after construction: `socketSessions = new Map()`; no handler
\* between awaits, nothing sent, no socket gone, no session owned.
NoGateway == [socketSessions |-> <<>>, creating |-> {}, closing |-> {}, gone |-> {},
              owner |-> [sid \in SessionIds |-> 0],
              pending |-> NoResponse, out |-> NoResponse]

\* The committed reader before its first use: `utilityClient: Client | null
\* = null`, no Client constructed, no call under way.
NoUtility == [utilityClient |-> 0, made |-> 0, status |-> "none",
              calls |-> [c \in {1, 2, 3} |-> [pc |-> "idle", kind |-> "none", res |-> "none"]]]

\* `state: null` of createInitialSession, and a SessionState.
NoSessionState == [present |-> FALSE, inTransaction |-> FALSE, isolationLevel |-> "READ COMMITTED"]
SessionState(inTransaction, isolationLevel) ==
    [present |-> TRUE, inTransaction |-> inTransaction, isolationLevel |-> isolationLevel]

\* `const DEFAULT_SQL = 'SELECT * FROM accounts;'`
DEFAULT_SQL == "SELECT * FROM accounts;"

\* createInitialSession(): no state, not loading. The sql field is not kept:
\* execute is entered through executeWithSql, which sets it first.
createInitialSession == [state |-> NoSessionState, isLoading |-> FALSE]

\* The store as created: three initial sessions, `uncommitted: { 1: null,
\* 2: null, 3: null }` (0 stands for null, otherwise the terminalId the
\* stored snapshot carries), no request awaiting its acknowledgement.
NoFront == [sessions |-> [t \in {1, 2, 3} |-> createInitialSession],
            uncommitted |-> [t \in {1, 2, 3} |-> 0],
            requests |-> {}]

\* keyof CommittedData
TableName == {"accounts", "products"}

\* useCommittedData before its effect has run, with the server's side of its
\* socket: data holds the rows per table (rows are numbered by the commit
\* that produced them, 0 for the empty list of useState), responses the
\* fetch answers Promise.all has so far (-1 for none), rows the committed
\* rows the database holds, asked the fetches the server has not answered,
\* channel the messages on their way to the browser, handled the rows of the
\* last broadcast the handler was given.
NoHook ==
    [mounted |-> FALSE,
     data |-> [table \in TableName |-> 0],
     responses |-> [table \in TableName |-> -1],
     handled |-> [table \in TableName |-> 0],
     rows |-> [table \in TableName |-> 1],
     asked |-> <<>>,
     channel |-> <<>>]

\* useScenario as mounted: `useState<Scenario | null>(null)`, `useState(0)`;
\* asked: the terminals the last start or stop sent an isolation level for.
NoScenario == [scenario |-> "null", currentStep |-> 0, asked |-> {}]

NoStmt == Stmt(<<>>, "none", 1, NoRow)
NoCall == [pc |-> "idle", sql |-> NoStmt,
           pre |-> [registered |-> FALSE, inTransaction |-> FALSE, dirty |-> FALSE],
           before |-> EmptyRows, rows |-> EmptyRows]

Init ==
    /\ sessions = <<>>
    /\ issued = {}
    /\ utilityClient = Null
    /\ connected = {}
    /\ pgTx = [c \in Conns |-> NoTx]
    /\ committed = SeedTable
    /\ ev = Event("init", UtilityConn, [registered |-> FALSE, inTransaction |-> FALSE, dirty |-> FALSE], <<>>, "void", "", EmptyRows, TRUE)
    /\ modifiedRows = [sid \in SessionIds |-> {}]
    /\ inflight = [sid \in SessionIds |-> NoCall]
    /\ uncommitted = NoSnapshot
    /\ gen = NoIds
    /\ gw = NoGateway
    /\ parsed = NoParse
    /\ changes = NoChanges
    /\ store = NoStore
    /\ util = NoUtility
    /\ front = NoFront
    /\ hook = NoHook
    /\ scenario = NoScenario

\* createSession(isolationLevel = 'READ COMMITTED'); connectOk: whether
\* client.connect() resolves.
generateSessionId == CHOOSE id \in SessionIds \ issued : \A j \in SessionIds \ issued : id <= j

createSession(sessionId, isolationLevel, connectOk) ==
    /\ issued # SessionIds
    /\ sessionId = generateSessionId
    /\ issued' = issued \cup {sessionId}
    /\ IF connectOk
       THEN /\ sessions' = sessions @@ (sessionId :>
                 [inTransaction |-> FALSE,
                  isolationLevel |-> IF isolationLevel = Undefined
                                     THEN DefaultIsolationLevel
                                     ELSE isolationLevel])
            /\ connected' = connected \cup {sessionId}
            /\ ev' = Event("createSession", sessionId, Pre(sessionId), <<>>, "result", "", EmptyRows, TRUE)
       ELSE /\ UNCHANGED <<sessions, connected>>
            /\ ev' = Event("createSession", sessionId, Pre(sessionId), <<>>, "throw", EngineError, EmptyRows, FALSE)
    /\ UNCHANGED <<utilityClient, pgTx, committed>>

\* Sending statement w on session sessionId's connection.
Send(sessionId, w, ok) ==
    /\ pgTx' = PgTxAfter(pgTx, committed, sessionId, w, ok)
    /\ committed' = PgDataAfter(pgTx, committed, sessionId, w, ok)

\* Two statements in a row on the same connection.
SendTwo(sessionId, w1, ok1, w2, ok2) ==
    LET tx1 == PgTxAfter(pgTx, committed, sessionId, w1, ok1)
        data1 == PgDataAfter(pgTx, committed, sessionId, w1, ok1)
    IN /\ pgTx' = PgTxAfter(tx1, data1, sessionId, w2, ok2)
       /\ committed' = PgDataAfter(tx1, data1, sessionId, w2, ok2)

Delete(map, key) == [k \in DOMAIN map \ {key} |-> map[k]]

\* A closeSession that rejects for an id it does not find.
closeUnknownThrows(sessionId) ==
    Event("closeSession", sessionId, Pre(sessionId), <<>>, "throw", "Session not found", EmptyRows, TRUE)

\* closeSession: `if (!session) return;`
closeUnknown(sessionId) ==
    Event("closeSession", sessionId, Pre(sessionId), <<>>, "void", "", EmptyRows, TRUE)

\* A closeSession that releases the connection without a ROLLBACK.
closeWithoutRollback(state) == FALSE

\* closeSession: `if (session.state.inTransaction)`
closeRollsBack(state) == state.inTransaction

\* closeSession(sessionId); rbOk: whether the ROLLBACK it sends is carried out.
closeSession(sessionId) ==
    IF sessionId \notin DOMAIN sessions
    THEN /\ ev' = closeUnknown(sessionId)
         /\ UNCHANGED <<sessions, issued, utilityClient, connected, pgTx, committed>>
    ELSE LET state == sessions[sessionId] IN
         /\ IF closeRollsBack(state)
            THEN \E rbOk \in BOOLEAN :
                 IF rbOk
                 THEN /\ SendTwo(sessionId, WireEnd("ROLLBACK"), TRUE, WireTerminate, TRUE)
                      /\ connected' = connected \ {sessionId}
                      /\ ev' = Event("closeSession", sessionId, Pre(sessionId),
                                     <<"ROLLBACK", "END">>, "void", "", EmptyRows, TRUE)
                 ELSE \* the ROLLBACK throws: client.end() is skipped
                      /\ Send(sessionId, WireEnd("ROLLBACK"), FALSE)
                      /\ UNCHANGED connected
                      /\ ev' = Event("closeSession", sessionId, Pre(sessionId),
                                     <<"ROLLBACK">>, "void", "", EmptyRows, FALSE)
            ELSE /\ Send(sessionId, WireTerminate, TRUE)
                 /\ connected' = connected \ {sessionId}
                 /\ ev' = Event("closeSession", sessionId, Pre(sessionId),
                                <<"END">>, "void", "", EmptyRows, TRUE)
         /\ sessions' = Delete(sessions, sessionId)
         /\ UNCHANGED <<issued, utilityClient>>

\* A BEGIN branch that lacks the 'already in progress' guard.
beginUnguarded(state) == FALSE

\* executeTransactionCommand: `if (state.inTransaction)` under BEGIN
beginRejected(state) == state.inTransaction

\* A COMMIT/ROLLBACK branch that lacks the 'no transaction' guard.
endUnguarded(state) == FALSE

\* executeTransactionCommand: `if (!state.inTransaction)` under COMMIT/ROLLBACK
endRejected(state) == ~state.inTransaction

\* A BEGIN sent without an isolation level: the engine applies its default.
beginWithoutLevel(state) == WireBegin(Undefined)

\* A BEGIN that ignores the descriptor's level.
beginAtDefaultLevel(state) == WireBegin(DefaultIsolationLevel)

\* executeTransactionCommand: the statement sent for BEGIN
beginStatement(state) == WireBegin(state.isolationLevel)

executeTransactionCommand(sessionId, command) ==
    LET state == sessions[sessionId] IN
    IF command = "BEGIN"
    THEN IF beginRejected(state)
         THEN /\ ev' = Event("executeQuery:BEGIN", sessionId, Pre(sessionId), <<>>,
                             "error", "Transaction already in progress", EmptyRows, TRUE)
              /\ UNCHANGED <<sessions, pgTx, committed>>
         ELSE \E eng \in BOOLEAN :
              /\ Send(sessionId, beginStatement(state), eng)
              /\ IF eng
                 THEN /\ sessions' = [sessions EXCEPT ![sessionId].inTransaction = TRUE]
                      /\ ev' = Event("executeQuery:BEGIN", sessionId, Pre(sessionId),
                                     <<"BEGIN">>, "result", "", EmptyRows, TRUE)
                 ELSE \* client.query rejects and nothing catches it
                      /\ UNCHANGED sessions
                      /\ ev' = Event("executeQuery:BEGIN", sessionId, Pre(sessionId),
                                     <<"BEGIN">>, "throw", EngineError, EmptyRows, FALSE)
    ELSE IF endRejected(state)
         THEN /\ ev' = Event("executeQuery:" \o command, sessionId, Pre(sessionId), <<>>,
                             "error", "No transaction in progress", EmptyRows, TRUE)
              /\ UNCHANGED <<sessions, pgTx, committed>>
         ELSE \E eng \in BOOLEAN :
              /\ Send(sessionId, WireEnd(command), eng)
              /\ IF eng
                 THEN /\ sessions' = [sessions EXCEPT ![sessionId].inTransaction = FALSE]
                      /\ ev' = Event("executeQuery:" \o command, sessionId, Pre(sessionId),
                                     <<command>>, "result", "", EmptyRows, TRUE)
                 ELSE /\ UNCHANGED sessions
                      /\ ev' = Event("executeQuery:" \o command, sessionId, Pre(sessionId),
                                     <<command>>, "throw", EngineError, EmptyRows, FALSE)

\* executeRegularQuery's catch: `if (state.inTransaction)`
catchRollsBack(state) == state.inTransaction

\* A catch that rolls back but leaves the flag as it was.
flagKeptAfterImplicitRollback(state) == state.inTransaction

\* executeRegularQuery's catch: inTransaction after the implicit rollback
flagAfterImplicitRollback(state) == FALSE

executeRegularQuery(sessionId, sql) ==
    LET state == sessions[sessionId]
        w == WireSql(sql)
    IN \E eng \in BOOLEAN :
       IF eng /\ PgCanSucceed(pgTx, committed, sessionId, w)
       THEN /\ Send(sessionId, w, TRUE)
            /\ UNCHANGED sessions
            /\ ev' = Event("executeQuery:SQL", sessionId, Pre(sessionId), <<"SQL">>,
                           "result", "", PgRows(pgTx, committed, sessionId, w, TRUE), TRUE)
       ELSE IF catchRollsBack(state)
            THEN \* silentRollback ignores the ROLLBACK's own failure
                 /\ SendTwo(sessionId, w, FALSE, WireEnd("ROLLBACK"), TRUE)
                 /\ sessions' = [sessions EXCEPT
                        ![sessionId].inTransaction = flagAfterImplicitRollback(state)]
                 /\ ev' = Event("executeQuery:SQL", sessionId, Pre(sessionId),
                                <<"SQL", "ROLLBACK">>, "error", EngineError, EmptyRows, FALSE)
            ELSE /\ Send(sessionId, w, FALSE)
                 /\ UNCHANGED sessions
                 /\ ev' = Event("executeQuery:SQL", sessionId, Pre(sessionId),
                                <<"SQL">>, "error", EngineError, EmptyRows, FALSE)

\* executeQuery(sessionId, sql); eng is the engine's verdict on the statement
\* sent.
executeQuery(sessionId, sql) ==
    /\ IF sessionId \notin DOMAIN sessions
       THEN /\ ev' = sessionNotFound("executeQuery", sessionId)
            /\ UNCHANGED <<sessions, pgTx, committed>>
       ELSE LET command == CommandOf[sql] IN
            IF command # Null
            THEN executeTransactionCommand(sessionId, command)
            ELSE executeRegularQuery(sessionId, sql)
    /\ UNCHANGED <<issued, utilityClient, connected>>

\* endTransaction: `if (!session.state.inTransaction)`
noActiveTransaction(state) == ~state.inTransaction

\* endTransaction(sessionId, command), behind commit() and rollback()
endTransaction(sessionId, command) ==
    /\ IF sessionId \notin DOMAIN sessions
       THEN /\ ev' = sessionNotFound(command, sessionId)
            /\ UNCHANGED <<sessions, pgTx, committed>>
       ELSE LET state == sessions[sessionId] IN
            IF noActiveTransaction(state)
            THEN /\ ev' = Event(command, sessionId, Pre(sessionId), <<>>, "error",
                                "No active transaction", EmptyRows, TRUE)
                 /\ UNCHANGED <<sessions, pgTx, committed>>
            ELSE \E eng \in BOOLEAN :
                 /\ Send(sessionId, WireEnd(command), eng)
                 /\ IF eng
                    THEN /\ sessions' = [sessions EXCEPT ![sessionId].inTransaction = FALSE]
                         /\ ev' = Event(command, sessionId, Pre(sessionId), <<command>>,
                                        "result", "", EmptyRows, TRUE)
                    ELSE /\ UNCHANGED sessions
                         /\ ev' = Event(command, sessionId, Pre(sessionId), <<command>>,
                                        "error", EngineError, EmptyRows, FALSE)
    /\ UNCHANGED <<issued, utilityClient, connected>>

commit(sessionId) == endTransaction(sessionId, "COMMIT")

rollback(sessionId) == endTransaction(sessionId, "ROLLBACK")

\* An isolation level kept once for the whole service.
assignIsolationLevelToAll(map, sessionId, level) ==
    [s \in DOMAIN map |-> [map[s] EXCEPT !.isolationLevel = level]]

\* setIsolationLevel: `session.state.isolationLevel = level`
assignIsolationLevel(map, sessionId, level) ==
    [map EXCEPT ![sessionId].isolationLevel = level]

\* A setIsolationLevel that lacks the active-transaction guard.
isolationChangeUnguarded(state) == FALSE

\* setIsolationLevel: `if (session.state.inTransaction)`
isolationChangeRejected(state) == state.inTransaction

setIsolationLevel(sessionId, level) ==
    /\ IF sessionId \notin DOMAIN sessions
       THEN /\ ev' = sessionNotFound("setIsolationLevel", sessionId)
            /\ UNCHANGED sessions
       ELSE LET state == sessions[sessionId] IN
            IF isolationChangeRejected(state)
            THEN /\ ev' = Event("setIsolationLevel", sessionId, Pre(sessionId), <<>>, "error",
                                "Cannot change isolation level during active transaction",
                                EmptyRows, TRUE)
                 /\ UNCHANGED sessions
            ELSE /\ sessions' = assignIsolationLevel(sessions, sessionId, level)
                 /\ ev' = Event("setIsolationLevel", sessionId, Pre(sessionId), <<>>,
                                "result", "", EmptyRows, TRUE)
    /\ UNCHANGED <<issued, utilityClient, connected, pgTx, committed>>

\* A reader that takes any table name.
anyTableAllowed(table) == TRUE

isAllowedTable(table) == table \in ALLOWED_TABLES

\* A committed read sent on a session's own connection.
sessionReader == CHOOSE c \in SessionIds : TRUE

\* The connection getCommittedData queries: the utility client's.
committedReader == UtilityConn

\* Committed content of a table as connection c reads it; only accounts is
\* written by SqlInputs, products keeps its seed rows.
PgSelectAll(tx, data, c, table) ==
    IF table = "accounts" THEN PgView(tx, data, c) ELSE SeedTable

\* getUtilityClient(): the client is assigned before connect() is awaited.
getUtilityClient(connectOk) ==
    IF utilityClient = Null
    THEN IF connectOk THEN "connected" ELSE "broken"
    ELSE utilityClient

\* getCommittedData(table); connectOk: whether a first connect() resolves,
\* eng: the engine's verdict on the SELECT.
getCommittedData(table) ==
    /\ IF ~isAllowedTable(table)
       THEN /\ ev' = Event("getCommittedData:" \o table, UtilityConn, Pre(UtilityConn), <<>>,
                           "result", "", EmptyRows, TRUE)
            /\ UNCHANGED utilityClient
       ELSE \E connectOk \in (IF utilityClient = Null THEN BOOLEAN ELSE {TRUE}), eng \in BOOLEAN :
            /\ utilityClient' = getUtilityClient(connectOk)
            /\ IF utilityClient = Null /\ ~connectOk
               THEN \* connect() rejects: caught, []
                    ev' = Event("getCommittedData:" \o table, UtilityConn, Pre(UtilityConn), <<>>,
                                "result", "", EmptyRows, FALSE)
               ELSE IF utilityClient' = "connected" /\ eng
               THEN ev' = Event("getCommittedData:" \o table, UtilityConn, Pre(UtilityConn), <<"SQL">>,
                                "result", "",
                                PgSelectAll(pgTx, committed, committedReader, table), TRUE)
               ELSE \* the query rejects: caught, []
                    ev' = Event("getCommittedData:" \o table, UtilityConn, Pre(UtilityConn), <<"SQL">>,
                                "result", "", EmptyRows, FALSE)
    /\ UNCHANGED <<sessions, issued, connected, pgTx, committed>>

Next ==
    \/ \E id \in SessionIds, l \in IsolationLevels \cup {Undefined}, ok \in BOOLEAN :
          createSession(id, l, ok) /\ UNCHANGED <<trackVars, partVars>>
    \/ \E id \in SessionIds : closeSession(id) /\ UNCHANGED <<trackVars, partVars>>
    \/ \E id \in SessionIds, sql \in SqlInputs : executeQuery(id, sql) /\ UNCHANGED <<trackVars, partVars>>
    \/ \E id \in SessionIds : commit(id) /\ UNCHANGED <<trackVars, partVars>>
    \/ \E id \in SessionIds : rollback(id) /\ UNCHANGED <<trackVars, partVars>>
    \/ \E id \in SessionIds, l \in IsolationLevels : setIsolationLevel(id, l) /\ UNCHANGED <<trackVars, partVars>>

\* The session operations.
Spec == Init /\ [][Next]_vars

\* The session operations with START TRANSACTION among the statements.
NextAnySql ==
    \/ Next
    \/ \E id \in SessionIds : executeQuery(id, StartStmt) /\ UNCHANGED <<trackVars, partVars>>

SpecAnySql == Init /\ [][NextAnySql]_vars

\* The session operations and the committed reader.
NextReader ==
    \/ Next
    \/ \E t \in TableNames : getCommittedData(t) /\ UNCHANGED <<trackVars, partVars>>

SpecReader == Init /\ [][NextReader]_vars

\* closeSession(sessionId) of a registered session as a function of the
\* service's state st (sessions, pgTx, committed, connected), with the
\* statements sent so far; rbOk: whether its ROLLBACK is carried out.
closeSessionIn(st, sessionId, rbOk) ==
    LET state == st.sessions[sessionId]
        rb == closeRollsBack(state)
        tx1 == IF rb
               THEN PgTxAfter(st.pgTx, st.committed, sessionId, WireEnd("ROLLBACK"), rbOk)
               ELSE st.pgTx
        data1 == IF rb
                 THEN PgDataAfter(st.pgTx, st.committed, sessionId, WireEnd("ROLLBACK"), rbOk)
                 ELSE st.committed
        ended == ~rb \/ rbOk     \* a ROLLBACK that throws skips client.end()
    IN [sessions |-> Delete(st.sessions, sessionId),
        pgTx |-> IF ended THEN PgTxAfter(tx1, data1, sessionId, WireTerminate, TRUE) ELSE tx1,
        committed |-> IF ended
                      THEN PgDataAfter(tx1, data1, sessionId, WireTerminate, TRUE)
                      ELSE data1,
        connected |-> IF ended THEN st.connected \ {sessionId} ELSE st.connected,
        sent |-> st.sent \o (IF rb THEN <<"ROLLBACK">> ELSE <<>>)
                         \o (IF ended THEN <<"END">> ELSE <<>>),
        engOk |-> st.engOk /\ ended]

\* The closes run one after another, each on the state the last one left.
RECURSIVE closeEach(_, _, _)
closeEach(ids, st, failed) ==
    IF ids = {}
    THEN st
    ELSE LET id == CHOOSE i \in ids : \A j \in ids : i <= j
         IN closeEach(ids \ {id}, closeSessionIn(st, id, id \notin failed), failed)

\* Closes that stop at the first session whose close fails.
closeUntilFailure(ids, failed) == {id \in ids : \A f \in failed : id <= f}

\* `[...this.sessions.keys()].map((id) => this.closeSession(id))` under
\* Promise.allSettled: a close is started for every registered session.
closePromises(ids, failed) == ids

\* onModuleDestroy(); failed: the sessions whose ROLLBACK is not carried
\* out.  It runs at shutdown, with no other call of the service in flight.
onModuleDestroy ==
    \E failed \in SUBSET {sid \in DOMAIN sessions : sessions[sid].inTransaction} :
       LET st == closeEach(closePromises(DOMAIN sessions, failed),
                           [sessions |-> sessions, pgTx |-> pgTx, committed |-> committed,
                            connected |-> connected, sent |-> <<>>, engOk |-> TRUE],
                           failed)
       IN /\ sessions' = st.sessions
          /\ pgTx' = st.pgTx
          /\ committed' = st.committed
          /\ connected' = st.connected
          /\ utilityClient' = IF utilityClient # Null THEN "ended" ELSE utilityClient
          /\ ev' = Event("onModuleDestroy", UtilityConn, Pre(UtilityConn), st.sent,
                         "void", "", EmptyRows, st.engOk)
          /\ UNCHANGED issued

\* The session operations, the committed reader and the shutdown hook.
NextDestroy ==
    \/ NextReader
    \/ onModuleDestroy /\ UNCHANGED <<trackVars, partVars>>

SpecDestroy == Init /\ [][NextDestroy]_vars

(* ------------------------ row-tracking service ------------------------ *)
(* The service that tracks modified rows.  Its executeQuery awaits        *)
(* several statements one after another; calls on other sessions run      *)
(* between them.  Calls on one session do not overlap.                    *)

Idle(sid) == inflight[sid].pc = "idle"

\* `SELECT * FROM accounts ORDER BY id`
SnapshotSelect == WireSql(Stmt(TextSelect, "select", 1, NoRow))

\* Transaction boundaries that leave modifiedRows as they are.
keepModifiedRows(sid) == modifiedRows

\* `session.modifiedRows = { accounts: new Set(), products: new Set() }`
NoModifiedRows(sid) == [modifiedRows EXCEPT ![sid] = {}]

\* getRawSnapshot(client): the accounts rows as the session's connection
\* reads them.
getRawSnapshot(tx, data, sid) == PgView(tx, data, sid)

\* A comparison of the snapshots that misses deleted rows.
trackWithoutDeletions(before, after) ==
    {r \in RowIds : after[r] # NoRow /\ before[r] # after[r]}

\* trackModifiedRows(session, before, after): the ids of rows deleted,
\* modified, or inserted between the two snapshots.
trackModifiedRows(before, after) ==
    {r \in RowIds : before[r] # NoRow /\ after[r] = NoRow}
    \cup {r \in RowIds : before[r] # NoRow /\ after[r] # NoRow /\ before[r] # after[r]}
    \cup {r \in RowIds : after[r] # NoRow /\ before[r] = NoRow}

\* Ids found replace those held.
replaceModifiedRows(held, found) == found

\* `session.modifiedRows[table].add(id)`: ids found are added to those held.
addModifiedRows(held, found) == held \cup found

\* A response built without the uncommitted snapshot.
omitSessionSnapshot(tx, data, sid, rows) == NoSnapshot

\* getSessionSnapshot(session): the accounts rows read through the session's
\* connection and a copy of its modifiedRows (rows).
getSessionSnapshot(tx, data, sid, rows) ==
    [present |-> TRUE, tables |-> PgView(tx, data, sid), modifiedRows |-> rows]

\* executeRegularQuery's catch with the flag true, after statement w failed:
\* silentRollback, flag false, modifiedRows emptied, the error returned.
catchInTransaction(sid, w, pre, sent) ==
    /\ SendTwo(sid, w, FALSE, WireEnd("ROLLBACK"), TRUE)
    /\ sessions' = [sessions EXCEPT ![sid].inTransaction = FALSE]
    /\ modifiedRows' = NoModifiedRows(sid)
    /\ inflight' = [inflight EXCEPT ![sid] = NoCall]
    /\ ev' = Event("executeQuery:SQL", sid, pre, sent, "error", EngineError, EmptyRows, FALSE)

\* executeQuery(sessionId, sql) up to its first await that another await
\* follows.
executeQueryTracked(sessionId, sql) ==
    /\ Idle(sessionId)
    /\ IF sessionId \notin DOMAIN sessions
       THEN /\ ev' = sessionNotFound("executeQuery", sessionId)
            /\ UNCHANGED <<sessions, pgTx, committed, modifiedRows, inflight>>
       ELSE LET command == CommandOf[sql]
                state == sessions[sessionId]
            IN
            IF command = "BEGIN"
            THEN IF beginRejected(state)
                 THEN /\ ev' = Event("executeQuery:BEGIN", sessionId, Pre(sessionId), <<>>,
                                     "error", "Transaction already in progress", EmptyRows, TRUE)
                      /\ UNCHANGED <<sessions, pgTx, committed, modifiedRows, inflight>>
                 ELSE \E eng \in BOOLEAN :
                      /\ Send(sessionId, beginStatement(state), eng)
                      /\ IF eng
                         THEN \* getSessionSnapshot is awaited next
                              /\ sessions' = [sessions EXCEPT ![sessionId].inTransaction = TRUE]
                              /\ modifiedRows' = NoModifiedRows(sessionId)
                              /\ inflight' = [inflight EXCEPT ![sessionId] =
                                    [NoCall EXCEPT !.pc = "snapshot", !.pre = Pre(sessionId)]]
                              /\ UNCHANGED ev
                         ELSE /\ UNCHANGED <<sessions, modifiedRows, inflight>>
                              /\ ev' = Event("executeQuery:BEGIN", sessionId, Pre(sessionId),
                                             <<"BEGIN">>, "throw", EngineError, EmptyRows, FALSE)
            ELSE IF command # Null
            THEN /\ executeTransactionCommand(sessionId, command)
                 /\ modifiedRows' = IF ev'.res = "result"
                                    THEN NoModifiedRows(sessionId)
                                    ELSE modifiedRows
                 /\ UNCHANGED inflight
            ELSE IF state.inTransaction
            THEN \* snapshotBefore = await getRawSnapshot(client)
                 \E eng \in BOOLEAN :
                 IF eng
                 THEN /\ Send(sessionId, SnapshotSelect, TRUE)
                      /\ inflight' = [inflight EXCEPT ![sessionId] =
                            [NoCall EXCEPT !.pc = "query", !.sql = sql, !.pre = Pre(sessionId),
                                           !.before = getRawSnapshot(pgTx, committed, sessionId)]]
                      /\ UNCHANGED <<sessions, modifiedRows, ev>>
                 ELSE catchInTransaction(sessionId, SnapshotSelect, Pre(sessionId),
                                         <<"SNAPSHOT", "ROLLBACK">>)
            ELSE /\ executeRegularQuery(sessionId, sql)
                 /\ UNCHANGED <<modifiedRows, inflight>>
    /\ uncommitted' = IF Idle(sessionId)' THEN NoSnapshot ELSE uncommitted
    /\ UNCHANGED <<issued, utilityClient, connected>>

\* executeRegularQuery: `const pgResult = await client.query(sql)`
runStatement(sessionId) ==
    /\ inflight[sessionId].pc = "query"
    /\ LET call == inflight[sessionId]
           w == WireSql(call.sql)
       IN \E eng \in BOOLEAN :
          IF eng /\ PgCanSucceed(pgTx, committed, sessionId, w)
          THEN /\ Send(sessionId, w, TRUE)
               /\ inflight' = [inflight EXCEPT
                     ![sessionId].pc = "after",
                     ![sessionId].sql = NoStmt,
                     ![sessionId].rows = PgRows(pgTx, committed, sessionId, w, TRUE)]
               /\ UNCHANGED <<sessions, modifiedRows, ev>>
          ELSE catchInTransaction(sessionId, w, call.pre, <<"SNAPSHOT", "SQL", "ROLLBACK">>)
    /\ uncommitted' = IF Idle(sessionId)' THEN NoSnapshot ELSE uncommitted
    /\ UNCHANGED <<issued, utilityClient, connected>>

\* executeRegularQuery: `snapshotAfter = await getRawSnapshot(client)`,
\* trackModifiedRows(session, snapshotBefore, snapshotAfter), then
\* `uncommitted = await this.getSessionSnapshot(session)` and the return.
\* The two reads are one step: the second changes nothing in the service or
\* the engine, and its failure is caught as the first one's is.
snapshotAfter(sessionId) ==
    /\ inflight[sessionId].pc = "after"
    /\ LET call == inflight[sessionId] IN
       \E eng \in BOOLEAN :
          IF eng
          THEN /\ SendTwo(sessionId, SnapshotSelect, TRUE, SnapshotSelect, TRUE)
               /\ modifiedRows' = [modifiedRows EXCEPT ![sessionId] =
                     addModifiedRows(@, trackModifiedRows(call.before,
                                        getRawSnapshot(pgTx, committed, sessionId)))]
               /\ inflight' = [inflight EXCEPT ![sessionId] = NoCall]
               /\ ev' = Event("executeQuery:SQL", sessionId, call.pre,
                              <<"SNAPSHOT", "SQL", "SNAPSHOT", "SNAPSHOT">>,
                              "result", "", call.rows, TRUE)
               /\ uncommitted' = getSessionSnapshot(pgTx, committed, sessionId,
                                                    modifiedRows'[sessionId])
               /\ UNCHANGED sessions
          ELSE /\ catchInTransaction(sessionId, SnapshotSelect, call.pre,
                                     <<"SNAPSHOT", "SQL", "SNAPSHOT", "ROLLBACK">>)
               /\ uncommitted' = NoSnapshot
    /\ UNCHANGED <<issued, utilityClient, connected>>

\* executeQuery after a BEGIN that succeeded:
\* `result.uncommitted = await this.getSessionSnapshot(session)`, outside any
\* try; the call returns.
sessionSnapshot(sessionId) ==
    /\ inflight[sessionId].pc = "snapshot"
    /\ LET call == inflight[sessionId] IN
       \E eng \in BOOLEAN :
          /\ Send(sessionId, SnapshotSelect, eng)
          /\ inflight' = [inflight EXCEPT ![sessionId] = NoCall]
          /\ ev' = IF eng
                   THEN Event("executeQuery:BEGIN", sessionId, call.pre,
                              <<"BEGIN", "SNAPSHOT">>, "result", "", EmptyRows, TRUE)
                   ELSE \* nothing catches it: executeQuery rejects
                        Event("executeQuery:BEGIN", sessionId, call.pre,
                              <<"BEGIN", "SNAPSHOT">>, "throw", EngineError, EmptyRows, FALSE)
          /\ uncommitted' = IF eng
                            THEN getSessionSnapshot(pgTx, committed, sessionId,
                                                    modifiedRows[sessionId])
                            ELSE NoSnapshot
          /\ UNCHANGED <<sessions, modifiedRows>>
    /\ UNCHANGED <<issued, utilityClient, connected>>

\* createSession: the new session's modifiedRows are empty sets.
createSessionTracked(sessionId, isolationLevel, connectOk) ==
    /\ createSession(sessionId, isolationLevel, connectOk)
    /\ modifiedRows' = NoModifiedRows(sessionId)
    /\ uncommitted' = NoSnapshot
    /\ UNCHANGED inflight

\* closeSession: the ActiveSession goes with its modifiedRows.
closeSessionTracked(sessionId) ==
    /\ Idle(sessionId)
    /\ closeSession(sessionId)
    /\ modifiedRows' = NoModifiedRows(sessionId)
    /\ uncommitted' = NoSnapshot
    /\ UNCHANGED inflight

\* endTransaction: modifiedRows are emptied after a COMMIT or ROLLBACK that
\* the engine carried out.
endTransactionTracked(sessionId, command) ==
    /\ Idle(sessionId)
    /\ endTransaction(sessionId, command)
    /\ modifiedRows' = IF ev'.res = "result" THEN NoModifiedRows(sessionId) ELSE modifiedRows
    /\ uncommitted' = NoSnapshot
    /\ UNCHANGED inflight

setIsolationLevelTracked(sessionId, level) ==
    /\ Idle(sessionId)
    /\ setIsolationLevel(sessionId, level)
    /\ uncommitted' = NoSnapshot
    /\ UNCHANGED <<modifiedRows, inflight>>

NextTrack ==
    \/ \E id \in SessionIds, l \in IsolationLevels \cup {Undefined}, ok \in BOOLEAN :
          createSessionTracked(id, l, ok) /\ UNCHANGED partVars
    \/ \E id \in SessionIds : closeSessionTracked(id) /\ UNCHANGED partVars
    \/ \E id \in SessionIds, sql \in SqlInputs :
          executeQueryTracked(id, sql) /\ UNCHANGED partVars
    \/ \E id \in SessionIds : runStatement(id) /\ UNCHANGED partVars
    \/ \E id \in SessionIds : snapshotAfter(id) /\ UNCHANGED partVars
    \/ \E id \in SessionIds : sessionSnapshot(id) /\ UNCHANGED partVars
    \/ \E id \in SessionIds, command \in {"COMMIT", "ROLLBACK"} :
          endTransactionTracked(id, command) /\ UNCHANGED partVars
    \/ \E id \in SessionIds, l \in IsolationLevels :
          setIsolationLevelTracked(id, l) /\ UNCHANGED partVars

\* The row-tracking service's operations.
SpecTrack == Init /\ [][NextTrack]_vars

(* --------------------------- id generation ---------------------------- *)
(* createSession with the id computed as generateSessionId computes it,   *)
(* from the clock and a random draw, and with the client it constructs.   *)

MaxClock == 1
MaxClients == 3
RandomDraws == {0, 1}

\* generateSessionId(): `sess_${Date.now()...}_${Math.random()...}`
generateSessionIdAt(now, draw) == <<now, draw>>

\* `this.sessions.set(sessionId, { client, state })`
MapSet(map, key, value) ==
    [k \in DOMAIN map \cup {key} |-> IF k = key THEN value ELSE map[k]]

\* Date.now() advances.
clockTick ==
    /\ gen.now < MaxClock
    /\ gen' = [gen EXCEPT !.now = @ + 1]

\* createSession(): `new Client(...)` is a client no one else holds.
createSessionAt(draw, connectOk) ==
    /\ gen.made < MaxClients
    /\ LET sessionId == generateSessionIdAt(gen.now, draw)
           client == gen.made + 1
       IN gen' = IF connectOk
                 THEN [gen EXCEPT !.made = client,
                                  !.clients = @ \cup {client},
                                  !.sessions = MapSet(@, sessionId, client)]
                 ELSE [gen EXCEPT !.made = client]

\* closeSession(sessionId): the session's client is ended, the entry deleted.
closeSessionAt(sessionId) ==
    /\ sessionId \in DOMAIN gen.sessions
    /\ gen' = [gen EXCEPT !.clients = @ \ {gen.sessions[sessionId]},
                          !.sessions = Delete(@, sessionId)]

\* getUtilityClient(): the committed reader's client, constructed once.
getUtilityClientAt ==
    /\ gen.utility = 0
    /\ gen.made < MaxClients
    /\ gen' = [gen EXCEPT !.made = @ + 1,
                          !.clients = @ \cup {gen.made + 1},
                          !.utility = gen.made + 1]

NextIds ==
    \/ clockTick /\ UNCHANGED exceptGen
    \/ \E draw \in RandomDraws, ok \in BOOLEAN :
          createSessionAt(draw, ok) /\ UNCHANGED exceptGen
    \/ \E id \in DOMAIN gen.sessions : closeSessionAt(id) /\ UNCHANGED exceptGen
    \/ getUtilityClientAt /\ UNCHANGED exceptGen

\* Sessions opened and closed with generated gen.
SpecIds == Init /\ [][NextIds]_vars

(* ----------------------------- classifier ----------------------------- *)
(* parseTransactionCommand applied to texts put together from a command   *)
(* or another word in some letter case, whitespace around it and a        *)
(* trailing semicolon.                                                    *)

\* String.prototype.toLowerCase, to spell the submitted texts.
ToLowerCase(sql) ==
    [i \in 1..Len(sql) |->
        IF \E k \in 1..Len(UpperCase) : UpperCase[k] = sql[i]
        THEN LowerCase[CHOOSE k \in 1..Len(UpperCase) : UpperCase[k] = sql[i]]
        ELSE sql[i]]

\* A word spelled with an upper-case first letter only.
Capitalized(sql) == <<Head(sql)>> \o ToLowerCase(Tail(sql))

\* A word in the three spellings.
Spellings(sql) == {sql, ToLowerCase(sql), Capitalized(sql)}

\* The words submitted, each with the command it stands for.
Words ==
    {[text |-> t, command |-> "BEGIN"] :
        t \in Spellings(TextBegin) \cup Spellings(TextBeginLevel)
              \cup Spellings(TextBegin \o <<" ", ";", "X">>)}
    \cup {[text |-> t, command |-> "COMMIT"] : t \in Spellings(TextCommit)}
    \cup {[text |-> t, command |-> "ROLLBACK"] : t \in Spellings(TextRollback)}
    \cup {[text |-> t, command |-> Null] :
            t \in Spellings(TextSelect) \cup Spellings(TextBegin \o <<"X">>)
                  \cup Spellings(TextBegin \o <<"\t", "X">>)
                  \cup Spellings(TextCommit \o <<" ", "X">>)
                  \cup Spellings(<<"X">> \o TextRollback)
                  \cup {<<>>}}

\* Whitespace put before and after a word.
Paddings == {<<>>, <<" ">>, <<"\n", "\t">>}

\* parseTransactionCommand(sql) on a word with whitespace around it and,
\* when semicolon is set, one ';' after the word.
classify(word, before, semicolon, after) ==
    LET sql == before \o word.text \o (IF semicolon THEN <<";">> ELSE <<>>) \o after
    IN parsed' = [done |-> TRUE, text |-> sql, expected |-> word.command,
                  command |-> parseTransactionCommand(sql)]

NextParse ==
    \E word \in Words, before \in Paddings, semicolon \in BOOLEAN, after \in Paddings :
       classify(word, before, semicolon, after) /\ UNCHANGED exceptParsed

\* The classifier on its own.
SpecParse == Init /\ [][NextParse]_vars

(* -------------------------- committed reader -------------------------- *)
(* getUtilityClient under concurrent callers: getCommittedData and        *)
(* executeSetup calls that overlap at their awaits.                       *)

\* Calls of getCommittedData and executeSetup that may be under way at once.
CallerIds == {1, 2, 3}
UtilityCallers == {"getCommittedData", "executeSetup"}

\* A getUtilityClient that looks at whether the client has connected.
utilityClientConnected(u) == u.status = "connected"

\* getUtilityClient: `this.utilityClient` is set
utilityClientSet(u) == u.utilityClient # 0

\* A call of getCommittedData (of an allowed table) or executeSetup up to
\* its first await: getUtilityClient() runs synchronously, constructs the
\* Client and assigns the field when the field is null, and awaits
\* connect(); otherwise it returns the field's client.
callGetUtilityClient(c, kind) ==
    /\ util.calls[c].pc = "idle"
    /\ IF utilityClientSet(util)
       THEN util' = [util EXCEPT !.calls[c] = [pc |-> "query", kind |-> kind, res |-> "none"]]
       ELSE /\ util.made < MaxClients
            /\ util' = [util EXCEPT !.made = @ + 1,
                                    !.utilityClient = util.made + 1,
                                    !.status = "connecting",
                                    !.calls[c] = [pc |-> "connecting", kind |-> kind, res |-> "none"]]

\* `await this.utilityClient.connect()` settles for the call that awaits it;
\* a rejection ends that call in its catch.
connectSettles(c, ok) ==
    /\ util.calls[c].pc = "connecting"
    /\ util' = [util EXCEPT !.status = IF ok THEN "connected" ELSE "failed",
                            !.calls[c].pc = IF ok THEN "query" ELSE "idle",
                            !.calls[c].res = IF ok THEN "none" ELSE "error"]

\* `await client.query(...)` settles: the client queues the query while it
\* connects and rejects it when the connection failed.
querySettles(c, eng) ==
    /\ util.calls[c].pc = "query"
    /\ util.status # "connecting"
    /\ util' = [util EXCEPT !.calls[c].pc = "idle",
                            !.calls[c].res = IF util.status = "connected" /\ eng
                                             THEN "ok" ELSE "error"]

NextUtility ==
    \/ \E c \in CallerIds, kind \in UtilityCallers :
          callGetUtilityClient(c, kind) /\ UNCHANGED exceptUtility
    \/ \E c \in CallerIds, ok \in BOOLEAN : connectSettles(c, ok) /\ UNCHANGED exceptUtility
    \/ \E c \in CallerIds, eng \in BOOLEAN : querySettles(c, eng) /\ UNCHANGED exceptUtility

\* The committed reader's client under overlapping calls.
SpecUtility == Init /\ [][NextUtility]_vars

(* ------------------------------ frontend ------------------------------ *)
(* computePendingChanges on the committed rows of a table and the         *)
(* terminals' uncommitted snapshots, and the store's addLog.              *)

\* `for (const terminalId of [1, 2, 3] as TerminalId[])`
TerminalIds == {1, 2, 3}
TerminalOrder == <<1, 2, 3>>

\* What a terminal's entry of `uncommitted` may hold: null, or the table as
\* the terminal's session reads it with the ids the session modified.
Snapshots ==
    {NoSnapshot}
    \cup {[present |-> TRUE, tables |-> rows, modifiedRows |-> m] :
            rows \in [RowIds -> Cells], m \in SUBSET RowIds}

\* A computation that takes every row of a snapshot as the terminal's own.
everyRowModified(data, rowId) == TRUE

\* `modifiedRowIds.has(rowId)`
modifiedRowIdsHas(data, rowId) == rowId \in data.modifiedRows

\* The terminals, in the order of the loop, for which test holds.
TerminalsWhere(test(_)) == SelectSeq(TerminalOrder, test)

\* computePendingChanges(committedRows, uncommitted, tableName): per row id
\* the terminals with a pending delete, with a pending insert and the row
\* they insert, and with changed cells and their new values.
computePendingChanges(committedRows, unc) ==
    LET mine(t, r) == unc[t].present /\ modifiedRowIdsHas(unc[t], r)
        deletes(r) ==
            TerminalsWhere(LAMBDA t : /\ mine(t, r)
                                      /\ committedRows[r] # NoRow
                                      /\ unc[t].tables[r] = NoRow)
        inserts(r) ==
            TerminalsWhere(LAMBDA t : /\ mine(t, r)
                                      /\ unc[t].tables[r] # NoRow
                                      /\ committedRows[r] = NoRow)
        updates(r) ==
            TerminalsWhere(LAMBDA t : /\ mine(t, r)
                                      /\ unc[t].tables[r] # NoRow
                                      /\ committedRows[r] # NoRow
                                      /\ committedRows[r] # unc[t].tables[r])
    IN [pendingDeletes |-> [r \in RowIds |-> deletes(r)],
        pendingInserts |->
            [r \in RowIds |->
                [i \in 1..Len(inserts(r)) |->
                    [terminalId |-> inserts(r)[i], row |-> unc[inserts(r)[i]].tables[r]]]],
        cellChanges |->
            [r \in RowIds |->
                [i \in 1..Len(updates(r)) |->
                    [terminalId |-> updates(r)[i], newValue |-> unc[updates(r)[i]].tables[r]]]]]

\* A call of computePendingChanges for the accounts table.
pendingChangesOf(committedRows, unc) ==
    changes' = [done |-> TRUE, committedRows |-> committedRows, uncommitted |-> unc,
                result |-> computePendingChanges(committedRows, unc)]

NextChanges ==
    \E committedRows \in [RowIds -> Cells], unc \in [TerminalIds -> Snapshots] :
       pendingChangesOf(committedRows, unc) /\ UNCHANGED exceptChanges

\* computePendingChanges on its own.
SpecChanges == Init /\ [][NextChanges]_vars

\* `const MAX_LOG_ENTRIES = 10;`
MAX_LOG_ENTRIES == 10

\* Log entries added in one run of the store.
MaxLogId == 11

\* A log that is never cut.
sliceNothing(log, count) == log

\* `log.slice(-count)`: the last count entries, all of them when there are
\* no more than count.
sliceLast(log, count) ==
    IF Len(log) <= count THEN log ELSE SubSeq(log, Len(log) - count + 1, Len(log))

\* addLog(terminalId, message, type): a log entry is modelled by its id.
addLog(terminalId) ==
    /\ store.logId < MaxLogId
    /\ LET session == store.log[terminalId]
           newLog == sliceLast(session, MAX_LOG_ENTRIES - 1) \o <<store.logId>>
       IN store' = [logId |-> store.logId + 1,
                    log |-> [store.log EXCEPT ![terminalId] = newLog]]

NextStore == \E terminalId \in TerminalIds : addLog(terminalId) /\ UNCHANGED exceptStore

\* The store's logs on their own.
SpecStore == Init /\ [][NextStore]_vars

(* --------------------------- frontend store --------------------------- *)
(* The store's actions, each split at its `await socket.emitWithAck`: the *)
(* part before the await sends a request, the part after it handles the   *)
(* acknowledgement or the rejection. The server answers a request from    *)
(* the state of the terminal's session as the responses handled so far    *)
(* have reported it: acknowledgements arrive in the order in which the    *)
(* server completed the requests.                                         *)

\* Requests awaiting their acknowledgement at one time.
MaxInFlight == 2

\* The texts submitted for execution.
FrontSql == {DEFAULT_SQL, "BEGIN", "COMMIT;", " "}

\* What a transaction command or statement is to the server.
FrontCommand(sql) ==
    CASE sql = "BEGIN" -> "BEGIN"
      [] sql = "COMMIT;" -> "COMMIT"
      [] OTHER -> Null

\* An updateUncommitted that replaces every terminal's snapshot.
replaceUncommitted(unc, terminalId, data) == [t \in DOMAIN unc |-> data]

\* updateUncommitted(terminalId, data)
updateUncommitted(unc, terminalId, data) == [unc EXCEPT ![terminalId] = data]

\* updateSession(terminalId, { state, isLoading })
updateSession(map, terminalId, state, isLoading) ==
    [map EXCEPT ![terminalId].state = state, ![terminalId].isLoading = isLoading]

\* A request sent with emitWithAck, with the session state its handler
\* captured when the handler reads it after the await (execute only).
Request(terminalId, event, sql, level, state) ==
    [terminalId |-> terminalId, event |-> event, sql |-> sql, level |-> level, state |-> state]

\* The part of an action before its await: the terminal is marked loading
\* when the action does that, and the request is on its way.
Emit(request, loading) ==
    /\ Cardinality(front.requests) < MaxInFlight
    /\ request \notin front.requests
    /\ front' = [front EXCEPT
          !.requests = @ \cup {request},
          !.sessions[request.terminalId].isLoading = IF loading THEN TRUE ELSE @]

\* createSession(terminalId, isolationLevel) up to its await
createSessionStore(terminalId, isolationLevel) ==
    Emit(Request(terminalId, "session:create", "", isolationLevel, NoSessionState), TRUE)

\* `!sql.trim()`
isBlank(sql) == sql = " "

\* executeWithSql(terminalId, sql): setSql, then execute up to its await,
\* which returns at once without a session or with blank sql.
executeWithSql(terminalId, sql) ==
    LET session == front.sessions[terminalId] IN
    /\ session.state.present
    /\ ~isBlank(sql)
    /\ Emit(Request(terminalId, "session:execute", sql, Undefined, session.state), TRUE)

\* commit(terminalId) / rollback(terminalId) up to the await
endStore(terminalId, event) ==
    LET session == front.sessions[terminalId] IN
    /\ session.state.present
    /\ Emit(Request(terminalId, event, "", Undefined, NoSessionState), TRUE)

\* setIsolationLevel(terminalId, level) up to its await; isLoading is left
\* as it is.
setIsolationLevelStore(terminalId, level) ==
    LET session == front.sessions[terminalId] IN
    /\ session.state.present
    /\ Emit(Request(terminalId, "session:set-isolation", "", level, NoSessionState), FALSE)

\* clearUncommitted(terminalId)
clearUncommitted(terminalId) ==
    front' = [front EXCEPT !.uncommitted = updateUncommitted(@, terminalId, 0)]

\* An acknowledgement: result or error, the state it carries (absent when
\* the server sends none), and whether it carries an uncommitted snapshot.
Ack(error, state, snapshot) == [error |-> error, state |-> state, uncommitted |-> snapshot]

\* The error acknowledgement without a state ('Session not found', or any
\* error of session:commit, session:rollback and session:set-isolation).
ErrorAck == Ack(TRUE, NoSessionState, FALSE)

\* What the server may answer to a request of a terminal whose session is
\* in state cur.
Acks(request, cur) ==
    LET command == FrontCommand(request.sql)
        level == IF request.level = Undefined THEN "READ COMMITTED" ELSE request.level
    IN CASE request.event = "session:create" ->
              {Ack(FALSE, SessionState(FALSE, level), FALSE)}
         [] request.event = "session:execute" /\ command = "BEGIN" ->
              {ErrorAck,
               IF cur.inTransaction
               THEN Ack(TRUE, cur, FALSE)
               ELSE Ack(FALSE, [cur EXCEPT !.inTransaction = TRUE], TRUE)}
         [] request.event = "session:execute" /\ command = "COMMIT" ->
              {ErrorAck,
               IF cur.inTransaction
               THEN Ack(FALSE, [cur EXCEPT !.inTransaction = FALSE], FALSE)
               ELSE Ack(TRUE, cur, FALSE)}
         [] request.event = "session:execute" /\ command = Null ->
              {ErrorAck,
               Ack(FALSE, cur, cur.inTransaction),
               Ack(TRUE, [cur EXCEPT !.inTransaction = FALSE], FALSE)}
         [] request.event \in {"session:commit", "session:rollback"} ->
              {ErrorAck} \cup
              (IF cur.inTransaction
               THEN {Ack(FALSE, [cur EXCEPT !.inTransaction = FALSE], FALSE)}
               ELSE {})
         [] request.event = "session:set-isolation" ->
              {ErrorAck} \cup
              (IF cur.inTransaction
               THEN {}
               ELSE {Ack(FALSE, [cur EXCEPT !.isolationLevel = level], FALSE)})

\* An error branch that leaves the terminal loading.
loadingAfterError(ack) == ack.error

\* execute after its await: `isLoading: false` in the error branch and in
\* the result branch.
loadingAfterAck(ack) == FALSE

\* execute after its await: the snapshot is stored under the terminalId it
\* carries (the terminal the session was created for) or cleared when the
\* state is not in a transaction; state falls back to the captured one.
executeAck(f, request, ack) ==
    LET t == request.terminalId
        unc == IF ack.uncommitted
               THEN updateUncommitted(f.uncommitted, t, t)
               ELSE IF ~(ack.state.present /\ ack.state.inTransaction)
                    THEN updateUncommitted(f.uncommitted, t, 0)
                    ELSE f.uncommitted
        state == IF ack.state.present THEN ack.state ELSE request.state
    IN [f EXCEPT !.uncommitted = unc,
                 !.sessions = updateSession(@, t, state, loadingAfterAck(ack))]

\* commit / rollback after the await: the snapshot is cleared, the state is
\* taken from a response that carries one.
endAck(f, request, ack) ==
    LET t == request.terminalId
        state == IF ack.state.present THEN ack.state ELSE f.sessions[t].state
    IN [f EXCEPT !.uncommitted = updateUncommitted(@, t, 0),
                 !.sessions = updateSession(@, t, state, FALSE)]

\* createSession after its await
createSessionAck(f, request, ack) ==
    [f EXCEPT !.sessions = updateSession(@, request.terminalId, ack.state, FALSE)]

\* setIsolationLevel after its await
setIsolationLevelAck(f, request, ack) ==
    IF ack.state.present
    THEN [f EXCEPT !.sessions[request.terminalId].state = ack.state]
    ELSE f

\* The acknowledgement of a request arrives and its handler runs.
acknowledge(request, ack) ==
    LET f == [front EXCEPT !.requests = @ \ {request}] IN
    /\ request \in front.requests
    /\ front' = CASE request.event = "session:create" -> createSessionAck(f, request, ack)
                  [] request.event = "session:execute" -> executeAck(f, request, ack)
                  [] request.event \in {"session:commit", "session:rollback"} ->
                        endAck(f, request, ack)
                  [] request.event = "session:set-isolation" ->
                        setIsolationLevelAck(f, request, ack)

\* emitWithAck rejects: the catch block runs; setIsolationLevel's catch only
\* logs.
rejected(request) ==
    /\ request \in front.requests
    /\ front' = [front EXCEPT
          !.requests = @ \ {request},
          !.sessions[request.terminalId].isLoading =
              IF request.event = "session:set-isolation" THEN @ ELSE FALSE]

\* The steps that start a store action.
Calls ==
    \/ \E t \in TerminalIds, l \in {Undefined, "REPEATABLE READ"} : createSessionStore(t, l)
    \/ \E t \in TerminalIds, sql \in FrontSql : executeWithSql(t, sql)
    \/ \E t \in TerminalIds, e \in {"session:commit", "session:rollback"} : endStore(t, e)
    \/ \E t \in TerminalIds, l \in IsolationLevels : setIsolationLevelStore(t, l)
    \/ \E t \in TerminalIds : clearUncommitted(t)

\* The steps that finish one.
Settles ==
    \/ \E request \in front.requests :
          \E ack \in Acks(request, front.sessions[request.terminalId].state) :
             acknowledge(request, ack)
    \/ \E request \in front.requests : rejected(request)

NextFront ==
    \/ Calls /\ UNCHANGED exceptFront
    \/ Settles /\ UNCHANGED exceptFront

\* The store's sessions and snapshots.
SpecFront == Init /\ [][NextFront]_vars

\* The request is acknowledged or rejected.
settle(request) ==
    \/ \E ack \in Acks(request, front.sessions[request.terminalId].state) :
          acknowledge(request, ack)
    \/ rejected(request)

NextLoading ==
    \/ \E t \in TerminalIds : createSessionStore(t, Undefined) /\ UNCHANGED exceptFront
    \/ \E t \in TerminalIds, sql \in FrontSql : executeWithSql(t, sql) /\ UNCHANGED exceptFront
    \/ \E t \in TerminalIds, e \in {"session:commit", "session:rollback"} :
          endStore(t, e) /\ UNCHANGED exceptFront
    \/ \E request \in front.requests : settle(request) /\ UNCHANGED exceptFront

\* Some request of terminal t is acknowledged or rejected.
settleOf(t) ==
    \E request \in front.requests :
       request.terminalId = t /\ settle(request) /\ UNCHANGED exceptFront

\* The actions that mark a terminal loading, with requests ending: a
\* terminal's requests are not all left unanswered for ever (which follows
\* from every request being acknowledged or rejected in the end).
SpecLoading ==
    /\ Init
    /\ [][NextLoading]_vars
    /\ \A t \in TerminalIds : WF_vars(settleOf(t))

(* ----------------------------- useScenario ---------------------------- *)
(* The scenario hook over the store: start and stop send an isolation     *)
(* level for every terminal through the store's setIsolationLevel.        *)

\* Two of the SCENARIOS: their ids, the isolationLevels of their setup (two
\* entries: the third terminal's is undefined) and steps.length.
SCENARIOS == {"repeatable-read-protection", "write-skew"}
isolationLevels(scenarioId) ==
    IF scenarioId = "repeatable-read-protection"
    THEN <<"REPEATABLE READ", "READ COMMITTED">>
    ELSE <<"REPEATABLE READ", "REPEATABLE READ">>
stepsLength(scenarioId) == IF scenarioId = "repeatable-read-protection" THEN 6 ELSE 8

\* The ids start is called with, and the steps goToStep is called with.
ScenarioIds == SCENARIOS \cup {"unknown"}
StepInputs == -1 .. 9

\* `const DEFAULT_ISOLATION_LEVEL: IsolationLevel = 'READ COMMITTED'`
DEFAULT_ISOLATION_LEVEL == "READ COMMITTED"

\* `levels[index] ?? DEFAULT_ISOLATION_LEVEL` for terminal index + 1
levelFor(levels, terminalId) ==
    IF terminalId <= Len(levels) THEN levels[terminalId] ELSE DEFAULT_ISOLATION_LEVEL

\* A minimum that lets its first argument through.
firstArgument(a, b) == a

\* Math.min and Math.max
MathMin(a, b) == IF a <= b THEN a ELSE b
MathMax(a, b) == IF a >= b THEN a ELSE b

\* No request awaits its acknowledgement: in this part the user acts on the
\* store and on the scenario after the previous responses have arrived.
Quiet == front.requests = {}

\* TERMINAL_IDS.forEach(setIsolationLevel(terminalId, level)) after
\* setScenario and setCurrentStep(0): the store sends a request for every
\* terminal that has a session.
sendLevels(scenarioId, level(_)) ==
    LET asked == {t \in TerminalIds : front.sessions[t].state.present} IN
    /\ front' = [front EXCEPT !.requests =
                    {Request(t, "session:set-isolation", "", level(t), NoSessionState) :
                        t \in asked}]
    /\ scenario' = [scenario |-> scenarioId, currentStep |-> 0, asked |-> asked]

\* start(scenarioId): nothing happens for an id that is not found.
start(scenarioId) ==
    /\ Quiet
    /\ IF scenarioId \in SCENARIOS
       THEN sendLevels(scenarioId, LAMBDA t : levelFor(isolationLevels(scenarioId), t))
       ELSE UNCHANGED <<scenario, front>>

\* stop()
stop ==
    /\ Quiet
    /\ sendLevels("null", LAMBDA t : DEFAULT_ISOLATION_LEVEL)

\* nextStep(): `Math.min(prev + 1, scenario.steps.length)`
nextStep ==
    /\ scenario.scenario # "null"
    /\ scenario' = [scenario EXCEPT
          !.currentStep = MathMin(@ + 1, stepsLength(scenario.scenario))]

\* prevStep(): `Math.max(prev - 1, 0)`
prevStep ==
    scenario' = [scenario EXCEPT !.currentStep = MathMax(@ - 1, 0)]

\* goToStep(step): `Math.max(0, Math.min(step, scenario.steps.length))`
goToStep(step) ==
    /\ scenario.scenario # "null"
    /\ scenario' = [scenario EXCEPT
          !.currentStep = MathMax(0, MathMin(step, stepsLength(scenario.scenario)))]

\* The server's answer to session:set-isolation for a session it holds:
\* refused in a transaction, carried out otherwise.
answerSetIsolation(request) ==
    LET cur == front.sessions[request.terminalId].state IN
    /\ request.event = "session:set-isolation"
    /\ \E ack \in Acks(request, cur) \ (IF cur.inTransaction THEN {} ELSE {ErrorAck}) :
          acknowledge(request, ack)

\* The answers to the other requests, as in the store's part.
answerOther(request) ==
    /\ request.event # "session:set-isolation"
    /\ \E ack \in Acks(request, front.sessions[request.terminalId].state) \ {ErrorAck} :
          acknowledge(request, ack)

NextScenario ==
    \/ \E id \in ScenarioIds : start(id) /\ UNCHANGED exceptScenario
    \/ stop /\ UNCHANGED exceptScenario
    \/ nextStep /\ UNCHANGED <<exceptScenario, front>>
    \/ prevStep /\ UNCHANGED <<exceptScenario, front>>
    \/ \E step \in StepInputs : goToStep(step) /\ UNCHANGED <<exceptScenario, front>>
    \/ \E t \in TerminalIds :
          Quiet /\ createSessionStore(t, Undefined) /\ UNCHANGED <<exceptScenario, scenario>>
    \/ \E t \in TerminalIds, sql \in {"BEGIN", "COMMIT;"} :
          Quiet /\ executeWithSql(t, sql) /\ UNCHANGED <<exceptScenario, scenario>>
    \/ \E request \in front.requests :
          answerSetIsolation(request) /\ UNCHANGED <<exceptScenario, scenario>>
    \/ \E request \in front.requests :
          answerOther(request) /\ UNCHANGED <<exceptScenario, scenario>>

\* Scenarios started and stopped over terminals that open sessions and
\* transactions.
SpecScenario == Init /\ [][NextScenario]_vars

(* ------------------------------ gateway ------------------------------- *)
(* TerminalGateway over the session operations.  A handler that awaits    *)
(* the broadcast sends its response in a later step; createSession and    *)
(* the closes of a disconnect are awaited too, and a socket's disconnect  *)
(* may arrive in between.                                                 *)

SocketIds == {1}

DEMO_TABLES == {"accounts", "products"}

\* What a handler returns: whether it carries an error, whether it carries
\* the descriptor, the descriptor's flag, whether the session was registered
\* when the response was built, and the tables published before it.
Response(handler, sessionId, error, hasState, reg) ==
    [handler |-> handler, sessionId |-> sessionId, error |-> error,
     hasState |-> hasState /\ sessionId \in DOMAIN reg,
     inTransaction |-> sessionId \in DOMAIN reg /\ reg[sessionId].inTransaction,
     registered |-> sessionId \in DOMAIN reg,
     broadcast |-> {}]

\* getSessionResult(sessionId): the descriptor, or 'Session not found'.
getSessionResult(handler, sessionId, reg) ==
    Response(handler, sessionId, sessionId \notin DOMAIN reg, TRUE, reg)

\* No handler is between its service call and its response.
Settled == gw.pending = NoResponse

\* handleConnection(client): `this.socketSessions.set(client.id, new Set())`
handleConnection(socket) ==
    /\ Settled
    /\ socket \notin DOMAIN gw.socketSessions
    /\ socket \notin gw.gone
    /\ gw' = [gw EXCEPT !.socketSessions = MapSet(@, socket, {})]
    /\ UNCHANGED serviceVars

\* handleCreateSession up to `await this.sessionManager.createSession(...)`.
handleCreateSession(socket) ==
    /\ Settled
    /\ socket \in DOMAIN gw.socketSessions
    /\ socket \notin gw.closing
    /\ socket \notin gw.creating
    /\ gw' = [gw EXCEPT !.creating = @ \cup {socket}]
    /\ UNCHANGED serviceVars

\* createSession resolves or rejects and handleCreateSession goes on:
\* `this.socketSessions.get(client.id)?.add(state.sessionId)`.
createSessionReturns(socket, sessionId, isolationLevel, connectOk) ==
    /\ Settled
    /\ socket \in gw.creating
    /\ createSession(sessionId, isolationLevel, connectOk)
    /\ gw' = IF ~connectOk
             THEN [gw EXCEPT !.creating = @ \ {socket}]
             ELSE [gw EXCEPT
                     !.creating = @ \ {socket},
                     !.owner[sessionId] = socket,
                     !.socketSessions =
                         IF socket \in DOMAIN @
                         THEN [@ EXCEPT ![socket] = @ \cup {sessionId}]
                         ELSE @,
                     !.out = Response("handleCreateSession", sessionId, FALSE, TRUE, sessions')]

\* handleDisconnect up to `await Promise.allSettled(...)`: a closeSession is
\* started for every id in the socket's set; failed: the sessions whose
\* ROLLBACK is not carried out.
handleDisconnect(socket) ==
    /\ Settled
    /\ socket \in DOMAIN gw.socketSessions
    /\ socket \notin gw.closing
    /\ LET sessionIds == gw.socketSessions[socket] \cap DOMAIN sessions IN
       \E failed \in SUBSET {sid \in sessionIds : sessions[sid].inTransaction} :
          LET st == closeEach(closePromises(sessionIds, failed),
                              [sessions |-> sessions, pgTx |-> pgTx, committed |-> committed,
                               connected |-> connected, sent |-> <<>>, engOk |-> TRUE],
                              failed)
          IN /\ sessions' = st.sessions
             /\ pgTx' = st.pgTx
             /\ committed' = st.committed
             /\ connected' = st.connected
             /\ ev' = Event("handleDisconnect", UtilityConn, Pre(UtilityConn), st.sent,
                            "void", "", EmptyRows, st.engOk)
    /\ gw' = [gw EXCEPT !.closing = @ \cup {socket}]
    /\ UNCHANGED <<issued, utilityClient>>

\* handleDisconnect after the closes settled:
\* `this.socketSessions.delete(client.id)`.
socketSessionsDelete(socket) ==
    /\ Settled
    /\ socket \in gw.closing
    /\ gw' = [gw EXCEPT !.closing = @ \ {socket},
                        !.gone = @ \cup {socket},
                        !.socketSessions = Delete(@, socket)]
    /\ UNCHANGED serviceVars

\* A handler's response: sent now, or after the broadcast it awaits.
Respond(response, broadcasts) ==
    gw' = IF broadcasts
          THEN [gw EXCEPT !.pending = response]
          ELSE [gw EXCEPT !.out = response]

\* handleExecuteQuery(payload); a rejected executeQuery rejects the handler.
handleExecuteQuery(sessionId, sql) ==
    /\ Settled
    /\ executeQuery(sessionId, sql)
    /\ IF ev'.res = "throw"
       THEN UNCHANGED gw
       ELSE LET error == ev'.res = "error"
                response == Response("handleExecuteQuery", sessionId, error, TRUE, sessions')
            IN Respond(response, ~error /\ ~response.inTransaction)

\* handleCommit(payload)
handleCommit(sessionId) ==
    /\ Settled
    /\ commit(sessionId)
    /\ IF ev'.res = "error"
       THEN Respond(Response("handleCommit", sessionId, TRUE, FALSE, sessions'), FALSE)
       ELSE Respond(getSessionResult("handleCommit", sessionId, sessions'), TRUE)

\* handleRollback(payload)
handleRollback(sessionId) ==
    /\ Settled
    /\ rollback(sessionId)
    /\ IF ev'.res = "error"
       THEN Respond(Response("handleRollback", sessionId, TRUE, FALSE, sessions'), FALSE)
       ELSE Respond(getSessionResult("handleRollback", sessionId, sessions'), FALSE)

\* handleSetIsolation(payload)
handleSetIsolation(sessionId, level) ==
    /\ Settled
    /\ setIsolationLevel(sessionId, level)
    /\ IF ev'.res = "error"
       THEN Respond(Response("handleSetIsolation", sessionId, TRUE, FALSE, sessions'), FALSE)
       ELSE Respond(getSessionResult("handleSetIsolation", sessionId, sessions'), FALSE)

\* broadcastCommittedData(): every demo table is read with getCommittedData
\* and emitted to all sockets; the handler then returns its response.  The
\* accounts read is the one the engine model answers.
broadcastCommittedData ==
    /\ ~Settled
    /\ getCommittedData("accounts")
    /\ gw' = [gw EXCEPT !.pending = NoResponse,
                        !.out = [gw.pending EXCEPT !.broadcast = DEMO_TABLES]]

NextGateway ==
    \/ \E socket \in SocketIds : handleConnection(socket) /\ UNCHANGED exceptGateway
    \/ \E socket \in SocketIds : handleCreateSession(socket) /\ UNCHANGED exceptGateway
    \/ \E socket \in SocketIds, id \in SessionIds,
          l \in IsolationLevels \cup {Undefined}, ok \in BOOLEAN :
          createSessionReturns(socket, id, l, ok) /\ UNCHANGED exceptGateway
    \/ \E socket \in SocketIds : handleDisconnect(socket) /\ UNCHANGED exceptGateway
    \/ \E socket \in SocketIds : socketSessionsDelete(socket) /\ UNCHANGED exceptGateway
    \/ \E id \in SessionIds, sql \in SqlInputs :
          handleExecuteQuery(id, sql) /\ UNCHANGED exceptGateway
    \/ \E id \in SessionIds : handleCommit(id) /\ UNCHANGED exceptGateway
    \/ \E id \in SessionIds : handleRollback(id) /\ UNCHANGED exceptGateway
    \/ \E id \in SessionIds, l \in IsolationLevels :
          handleSetIsolation(id, l) /\ UNCHANGED exceptGateway
    \/ broadcastCommittedData /\ UNCHANGED exceptGateway

\* The gateway's handlers.
SpecGateway == Init /\ [][NextGateway]_vars

(* ------------------------------- claims ------------------------------- *)

\* The engine has a transaction open on session sid's connection.
PgOpen(sid) == pgTx[sid].status # "none"

\* The operation completed last reported an engine error.
EngineErrorReported == ev.res \in {"error", "throw"} /\ ev.msg = EngineError

\* C1: between operations, a registered session's inTransaction flag is true
\* exactly when its connection has a transaction open (a BEGIN succeeded and
\* nothing has ended that transaction since).
C1_FlagAgreesWithConnection ==
    \A sid \in DOMAIN sessions : sessions[sid].inTransaction <=> PgOpen(sid)

\* The last operation was an ordinary statement that raised an engine error
\* on a session that was IN_TRANSACTION.
ImplicitRollbackDone ==
    /\ ev.op = "executeQuery:SQL"
    /\ ev.pre.inTransaction
    /\ EngineErrorReported

\* C2: an ordinary statement that raises an engine error while the session
\* is IN_TRANSACTION is followed by a ROLLBACK on the session's connection;
\* the flag becomes false, the engine error is returned (not thrown), the
\* transaction's writes are discarded and committed data is what it was
\* before the statement, the session stays registered, and a BEGIN issued
\* next on it that the engine carries out succeeds.
C2_ImplicitRollback ==
    [][ /\ ( /\ ev'.op = "executeQuery:SQL"
             /\ ev'.pre.inTransaction
             /\ ~ev'.engOk )
           => /\ ev'.sent = <<"SQL", "ROLLBACK">>
              /\ ev'.res = "error"
              /\ ev'.msg = EngineError
              /\ ev'.sid \in DOMAIN sessions'
              /\ ~sessions'[ev'.sid].inTransaction
              /\ pgTx'[ev'.sid] = NoTx
              /\ committed' = committed
        /\ ( /\ ImplicitRollbackDone
             /\ ev'.op = "executeQuery:BEGIN"
             /\ ev'.sid = ev.sid
             /\ ev'.engOk )
           => /\ ev'.res = "result"
              /\ ev'.sent = <<"BEGIN">>
              /\ sessions'[ev.sid].inTransaction
              /\ pgTx'[ev.sid].status = "open"
      ]_vars

\* C2's case: the failing statement ran in a transaction that had written.
C2_Witness ==
    /\ ImplicitRollbackDone
    /\ ev.pre.dirty
    /\ ev.sent = <<"SQL", "ROLLBACK">>
    /\ ~InTx(ev.sid)

\* C3: whenever an operation on a session that was IN_TRANSACTION reports an
\* engine error, the session is IDLE when the error comes back: its flag is
\* false and its connection has no transaction open.
C3_EngineErrorLeavesIdle ==
    ( /\ EngineErrorReported
      /\ ev.pre.inTransaction
      /\ ev.op # "closeSession" )
    => /\ ~InTx(ev.sid)
       /\ ~PgOpen(ev.sid)

\* The last operation was a committed read of accounts that the utility
\* connection carried out.
CommittedReadDone ==
    /\ ev.op = "getCommittedData:accounts"
    /\ ev.sent = <<"SQL">>
    /\ ev.engOk

\* The last operation ended session ev.sid's transaction by a COMMIT that the
\* engine carried out.
CommitDone ==
    /\ ev.op \in {"COMMIT", "executeQuery:COMMIT"}
    /\ ev.engOk
    /\ ev.sent = <<"COMMIT">>

\* C5: a committed read that is carried out returns the last committed
\* state, whatever transactions are open; and committed data changes only by
\* a COMMIT that the engine carries out or by a statement sent outside any
\* transaction, so BEGIN, the writes after it and ROLLBACK leave it as it was
\* before the BEGIN, for every writer.
C5_CommittedReadSeesOnlyCommitted ==
    [][ /\ CommittedReadDone' => ev'.rows = committed'
        /\ committed' # committed
           => \/ CommitDone'
              \/ /\ ev'.op = "executeQuery:SQL"
                 /\ ev'.engOk
                 /\ pgTx[ev'.sid].status = "none"
      ]_vars

\* C5's case: the read ran while a session's open transaction held a write
\* that differs from the committed row.
C5_Witness ==
    /\ CommittedReadDone
    /\ ev.rows = committed
    /\ \E sid \in DOMAIN sessions :
          Dirty(sid) /\ PgView(pgTx, committed, sid) # committed

\* C6: closeSession on a session that is IN_TRANSACTION sends ROLLBACK first
\* and releases the connection only after it; the engine's transaction is
\* gone with its writes, and committed data is what it was before the close.
C6_CloseRollsBackFirst ==
    [][ ( /\ ev'.op = "closeSession"
          /\ ev'.pre.inTransaction )
        => /\ ev'.sent \in {<<"ROLLBACK", "END">>, <<"ROLLBACK">>}
           /\ ev'.sid \notin connected' => ev'.sent = <<"ROLLBACK", "END">>
           /\ pgTx'[ev'.sid] = NoTx
           /\ committed' = committed
           /\ ev'.sid \notin DOMAIN sessions'
      ]_vars

\* C6's case: the closed session's transaction held uncommitted writes.
C6_Witness ==
    /\ ev.op = "closeSession"
    /\ ev.pre.inTransaction
    /\ ev.pre.dirty
    /\ ev.sent = <<"ROLLBACK", "END">>
    /\ ev.sid \notin connected

\* C7: a BEGIN-classified statement on a session that is IN_TRANSACTION
\* returns the 'already in progress' error, sends nothing, and leaves the
\* session's flag and level, the engine and committed data unchanged.
C7_BeginWhileInTransaction ==
    [][ ( /\ ev'.op = "executeQuery:BEGIN"
          /\ ev'.pre.inTransaction )
        => /\ ev'.res = "error"
           /\ ev'.msg = "Transaction already in progress"
           /\ ev'.sent = <<>>
           /\ sessions' = sessions
           /\ pgTx' = pgTx
           /\ committed' = committed
      ]_vars

\* C7's case: a BEGIN arrived on a session whose transaction was open.
C7_Witness ==
    /\ ev.op = "executeQuery:BEGIN"
    /\ ev.pre.inTransaction
    /\ ev.msg = "Transaction already in progress"
    /\ InTx(ev.sid)
    /\ PgOpen(ev.sid)

\* C8: COMMIT or ROLLBACK on a registered IDLE session, as SQL text or
\* through commit()/rollback(), returns a 'no transaction' error, sends
\* nothing, and leaves the session's flag and level, the engine and
\* committed data unchanged.
C8_EndWhileIdle ==
    [][ ( /\ ev'.op \in {"executeQuery:COMMIT", "executeQuery:ROLLBACK", "COMMIT", "ROLLBACK"}
          /\ ev'.pre.registered
          /\ ~ev'.pre.inTransaction )
        => /\ ev'.res = "error"
           /\ ev'.msg = IF ev'.op \in {"COMMIT", "ROLLBACK"}
                        THEN "No active transaction"
                        ELSE "No transaction in progress"
           /\ ev'.sent = <<>>
           /\ sessions' = sessions
           /\ pgTx' = pgTx
           /\ committed' = committed
      ]_vars

\* C8's case: a COMMIT sent as SQL text reached an IDLE session.
C8_Witness ==
    /\ ev.op = "executeQuery:COMMIT"
    /\ ev.pre.registered
    /\ ~ev.pre.inTransaction
    /\ ev.msg = "No transaction in progress"
    /\ ~InTx(ev.sid)

\* C9: a session's isolationLevel changes only in a step that found its flag
\* false; setIsolationLevel on a session that is IN_TRANSACTION returns an
\* error and leaves the level and the flag unchanged.
C9_LevelChangesOnlyWhileIdle ==
    [][ /\ \A sid \in DOMAIN sessions \cap DOMAIN sessions' :
              sessions'[sid].isolationLevel # sessions[sid].isolationLevel
              => ~sessions[sid].inTransaction
        /\ ( /\ ev'.op = "setIsolationLevel"
             /\ ev'.pre.inTransaction )
           => /\ ev'.res = "error"
              /\ ev'.msg = "Cannot change isolation level during active transaction"
              /\ sessions' = sessions
      ]_vars

\* C9's case: setIsolationLevel was called during an open transaction.
C9_Witness ==
    /\ ev.op = "setIsolationLevel"
    /\ ev.pre.inTransaction
    /\ ev.res = "error"
    /\ PgOpen(ev.sid)

\* C10: a BEGIN that succeeds opens the transaction at the level the
\* descriptor held when the BEGIN arrived; setIsolationLevel never touches a
\* transaction already open; and while a transaction is open on a session's
\* connection its level is the descriptor's isolationLevel.
C10_TransactionRunsAtSessionLevel ==
    [][ /\ ( /\ ev'.op = "executeQuery:BEGIN"
             /\ ev'.res = "result" )
           => /\ pgTx'[ev'.sid].status = "open"
              /\ pgTx'[ev'.sid].level = sessions[ev'.sid].isolationLevel
        /\ ev'.op = "setIsolationLevel" => pgTx' = pgTx
        /\ \A sid \in DOMAIN sessions' :
              pgTx'[sid].status # "none"
              => pgTx'[sid].level = sessions'[sid].isolationLevel
      ]_vars

\* C10's case: a BEGIN opened a transaction at a level that is not the
\* default one.
C10_Witness ==
    /\ ev.op = "executeQuery:BEGIN"
    /\ ev.res = "result"
    /\ PgOpen(ev.sid)
    /\ pgTx[ev.sid].level # DefaultIsolationLevel
    /\ pgTx[ev.sid].level = sessions[ev.sid].isolationLevel

\* C4: while session S has a transaction open, a row id is in S's
\* modifiedRows only if S itself inserted, updated or deleted that row in
\* that transaction, whatever the other sessions did in between.
C4_OnlyOwnWritesListed ==
    \A sid \in DOMAIN sessions :
       pgTx[sid].status = "open"
       => \A r \in modifiedRows[sid] : pgTx[sid].writes[r] # Untouched

\* C11: executeQuery, commit, rollback and setIsolationLevel on a sessionId
\* that is not in the registry return the 'Session not found' error, send
\* nothing, and leave the registry, every session's descriptor, the engine
\* and the connections as they were; getSessionState of that id is null.
C11_UnknownSessionTouchesNothing ==
    [][ ( /\ ev'.op \in {"executeQuery", "COMMIT", "ROLLBACK", "setIsolationLevel"}
          /\ ~ev'.pre.registered )
        => /\ ev'.res = "error"
           /\ ev'.msg = "Session not found"
           /\ ev'.sent = <<>>
           /\ \A sid \in SessionIds : sid = ev'.sid => getSessionState(sid)' = Null
           /\ UNCHANGED <<sessions, pgTx, committed, connected, issued, utilityClient>>
      ]_vars

\* C11's case: commit() on an id that is not registered while another
\* session has a transaction open.
C11_Witness ==
    /\ ev.op = "COMMIT"
    /\ ~ev.pre.registered
    /\ ev.msg = "Session not found"
    /\ \E sid \in DOMAIN sessions : InTx(sid) /\ pgTx[sid].status = "open"

\* The operations recorded for executeQuery calls.
ExecuteQueryOps ==
    {"executeQuery", "executeQuery:BEGIN", "executeQuery:COMMIT",
     "executeQuery:ROLLBACK", "executeQuery:SQL"}

\* C12: every executeQuery call that completes has returned a result or an
\* error (the two are exclusive), whatever the statement's class and
\* whatever the engine made of it.
C12_ResultOrError ==
    ev.op \in ExecuteQueryOps => ev.res \in {"result", "error"}

\* The read of the accounts table that callers submit.
SelectStmt == Stmt(TextSelect, "select", 1, NoRow)

\* This step is a read by session a, in its open transaction, that returned
\* rows.
ReadInTransaction(a) ==
    /\ executeQuery(a, SelectStmt)
    /\ ev'.res = "result"
    /\ ev'.pre.inTransaction
    /\ pgTx[a].status = "open"

\* Row contents as session a's transaction reads them over base: its own
\* writes first.
OwnWritesOver(a, base) ==
    [r \in RowIds |-> IF pgTx[a].writes[r] # Untouched THEN pgTx[a].writes[r] ELSE base[r]]

\* C13: a read by session A inside its open transaction returns, for the
\* rows A has not written, the committed values of the moment if A's
\* descriptor says READ COMMITTED (so what B committed since A's last read),
\* and if it says REPEATABLE READ the values of A's first read in that
\* transaction, which no later step of any session changes while the
\* transaction stays open.
C13_ReadVisibility ==
    [][ /\ \A a \in DOMAIN sessions :
              ReadInTransaction(a)
              => /\ sessions[a].isolationLevel = "READ COMMITTED"
                    => ev'.rows = OwnWritesOver(a, committed)
                 /\ (sessions[a].isolationLevel = "REPEATABLE READ" /\ ~pgTx[a].snapped)
                    => /\ ev'.rows = OwnWritesOver(a, committed)
                       /\ pgTx'[a].snapped
                       /\ pgTx'[a].snap = committed
                 /\ (sessions[a].isolationLevel = "REPEATABLE READ" /\ pgTx[a].snapped)
                    => ev'.rows = OwnWritesOver(a, pgTx[a].snap)
        /\ \A a \in DOMAIN sessions \cap DOMAIN sessions' :
              ( /\ sessions[a].isolationLevel = "REPEATABLE READ"
                /\ pgTx[a].status = "open" /\ pgTx[a].snapped
                /\ pgTx'[a].status = "open" )
              => /\ pgTx'[a].snapped
                 /\ pgTx'[a].snap = pgTx[a].snap
      ]_vars

\* C13's case: A, at REPEATABLE READ, read the row again after B committed
\* an update to it, and got the value of its first read.
C13_Witness ==
    /\ ev.op = "executeQuery:SQL"
    /\ ev.res = "result"
    /\ ev.pre.inTransaction
    /\ ev.sid \in DOMAIN sessions
    /\ sessions[ev.sid].isolationLevel = "REPEATABLE READ"
    /\ pgTx[ev.sid].status = "open"
    /\ pgTx[ev.sid].writes = NoWrites
    /\ ev.rows = <<SeedVal>>
    /\ committed = <<NewVal>>

\* The operations recorded for a COMMIT or ROLLBACK, sent as SQL text or
\* through commit()/rollback().
EndOps == {"executeQuery:COMMIT", "executeQuery:ROLLBACK", "COMMIT", "ROLLBACK"}

\* C14: a session's modifiedRows are empty when its createSession returns,
\* when a BEGIN on it has succeeded (the snapshot returned lists none), when
\* a COMMIT or ROLLBACK on it has succeeded, and after an implicit rollback.
C14_ModifiedRowsEmptyAtBoundaries ==
    /\ (ev.op = "createSession" /\ ev.res = "result") => modifiedRows[ev.sid] = {}
    /\ (ev.op = "executeQuery:BEGIN" /\ ev.res = "result")
       => /\ modifiedRows[ev.sid] = {}
          /\ uncommitted.present
          /\ uncommitted.modifiedRows = {}
    /\ (ev.op \in EndOps /\ ev.res = "result") => modifiedRows[ev.sid] = {}
    /\ ImplicitRollbackDone => modifiedRows[ev.sid] = {}

\* C14's case: a COMMIT succeeded on a transaction that had written rows.
C14_Witness ==
    /\ ev.op \in {"COMMIT", "executeQuery:COMMIT"}
    /\ ev.res = "result"
    /\ ev.pre.dirty
    /\ committed[1] # SeedVal
    /\ modifiedRows[ev.sid] = {}

\* C15: a step removes a row id from a session's modifiedRows only by
\* emptying them, and only in a step that changes the session's
\* inTransaction flag: a BEGIN that succeeds, or a COMMIT, ROLLBACK or
\* implicit rollback that clears the flag.  Every other step keeps every
\* id listed.
C15_ModifiedRowsOnlyGrow ==
    [][ \A sid \in DOMAIN sessions \cap DOMAIN sessions' :
           ~(modifiedRows[sid] \subseteq modifiedRows'[sid])
           => /\ modifiedRows'[sid] = {}
              /\ sessions'[sid].inTransaction # sessions[sid].inTransaction
              /\ ~sessions'[sid].inTransaction
                 => /\ ev'.sid = sid
                    /\ \/ ev'.op \in EndOps /\ ev'.res = "result"
                       \/ ev'.op = "executeQuery:SQL" /\ ev'.res = "error"
      ]_vars

\* C15's case: a read completed inside a transaction that had already
\* written a row, and the row is still listed.
C15_Witness ==
    /\ ev.op = "executeQuery:SQL"
    /\ ev.res = "result"
    /\ ev.pre.inTransaction
    /\ ev.pre.dirty
    /\ ev.rows # EmptyRows
    /\ modifiedRows[ev.sid] = {1}
    /\ uncommitted.modifiedRows = {1}

\* The ids whose row differs between two reads of the table.
Differing(before, after) == {r \in RowIds : before[r] # after[r]}

\* C16: when an ordinary statement has succeeded inside a transaction, the
\* ids added to the session's modifiedRows are exactly those whose row
\* differs between the read taken through the session's connection before
\* the statement and the read taken after it (deleted, inserted, modified).
C16_AddedRowsAreTheDifference ==
    [][ \A sid \in DOMAIN sessions :
           ( /\ inflight[sid].pc = "after"
             /\ inflight'[sid].pc = "idle"
             /\ ev'.res = "result" )
           => /\ ev'.op = "executeQuery:SQL"
              /\ ev'.sid = sid
              /\ modifiedRows'[sid] =
                    modifiedRows[sid]
                    \cup Differing(inflight[sid].before, PgView(pgTx, committed, sid))
      ]_vars

\* C16's case: the statement deleted a row the transaction had not written
\* before; the row is gone from the session's view and its id is listed.
C16_Witness ==
    /\ ev.op = "executeQuery:SQL"
    /\ ev.res = "result"
    /\ ev.pre.inTransaction
    /\ ~ev.pre.dirty
    /\ uncommitted.present
    /\ uncommitted.tables[1] = NoRow
    /\ uncommitted.modifiedRows = {1}

\* This step completes a call (no call is left between two awaits by it).
Completes ==
    \A sid \in SessionIds : inflight'[sid] # inflight[sid] => inflight'[sid].pc = "idle"

\* The session of the response just returned is IN_TRANSACTION.
InTransactionAtCompletion ==
    ev'.sid \in DOMAIN sessions' /\ sessions'[ev'.sid].inTransaction

\* C17 as stated: an executeQuery response carries an uncommitted snapshot
\* exactly when the session is IN_TRANSACTION as the call completes.
C17_SnapshotIffInTransaction ==
    [][ ( /\ Completes
          /\ ev'.op \in ExecuteQueryOps
          /\ ev'.res \in {"result", "error"} )
        => (uncommitted'.present <=> InTransactionAtCompletion)
      ]_vars

\* C17 amended: an executeQuery response carries an uncommitted snapshot
\* exactly when it carries a result and the session is IN_TRANSACTION as the
\* call completes: after a BEGIN that succeeded and after a statement that
\* succeeded inside a transaction; not after autocommit statements, COMMIT,
\* ROLLBACK, implicit rollback, nor with any error.
C17_SnapshotIffSucceededInTransaction ==
    [][ ( /\ Completes
          /\ ev'.op \in ExecuteQueryOps
          /\ ev'.res \in {"result", "error"} )
        => (uncommitted'.present <=> (ev'.res = "result" /\ InTransactionAtCompletion))
      ]_vars

\* C17's case: a BEGIN succeeded and its response carries the snapshot.
C17_Witness ==
    /\ ev.op = "executeQuery:BEGIN"
    /\ ev.res = "result"
    /\ InTx(ev.sid)
    /\ uncommitted.present

\* C18: closeSession of an id that is not registered (never issued, or
\* closed before) returns normally, sends nothing and leaves the registry,
\* the connections and the engine as they were.
C18_CloseUnknownIsNoOp ==
    [][ (ev'.op = "closeSession" /\ ~ev'.pre.registered)
        => /\ ev'.res = "void"
           /\ ev'.sent = <<>>
           /\ UNCHANGED <<sessions, pgTx, committed, connected, issued, utilityClient>>
      ]_vars

\* C18's case: a session that was issued and closed is closed again while
\* another session is inside a transaction.
C18_Witness ==
    /\ ev.op = "closeSession"
    /\ ~ev.pre.registered
    /\ ev.res = "void"
    /\ ev.sid \in issued
    /\ ev.sid \notin connected
    /\ \E sid \in DOMAIN sessions : InTx(sid) /\ pgTx[sid].status = "open"

\* C19: onModuleDestroy starts a close for every registered session: each
\* session's connection gets a ROLLBACK when the session is in a transaction
\* and is released unless that ROLLBACK failed, whatever happened to the
\* other sessions' closes; the hook returns normally and no session is left
\* in the registry.
C19_DestroyClosesEverySession ==
    [][ ev'.op = "onModuleDestroy"
        => /\ ev'.res = "void"
           /\ DOMAIN sessions' = {}
           /\ \A sid \in DOMAIN sessions :
                 /\ pgTx'[sid] = NoTx
                 /\ sid \in connected' => sessions[sid].inTransaction /\ ~ev'.engOk
           /\ Len(ev'.sent) >= Cardinality(DOMAIN sessions)
           /\ committed' = committed
           /\ issued' = issued
      ]_vars

\* C19's case: two sessions were in transactions; the ROLLBACK of the first
\* failed, the second was rolled back and released, and neither is
\* registered.
C19_Witness ==
    /\ ev.op = "onModuleDestroy"
    /\ ~ev.engOk
    /\ ev.sent = <<"ROLLBACK", "ROLLBACK", "END">>
    /\ connected = {1}
    /\ DOMAIN sessions = {}

\* C20: a step of an operation on one session (createSession, executeQuery,
\* commit, rollback, setIsolationLevel, closeSession) leaves every other
\* registered session registered, with its inTransaction flag and
\* isolationLevel as they were.
C20_OtherSessionsUntouched ==
    [][ \A other \in DOMAIN sessions :
           ev'.sid # other
           => /\ other \in DOMAIN sessions'
              /\ sessions'[other].inTransaction = sessions[other].inTransaction
              /\ sessions'[other].isolationLevel = sessions[other].isolationLevel
      ]_vars

\* C20's case: one session changed its level to REPEATABLE READ while the
\* other one is inside a transaction at READ COMMITTED.
C20_Witness ==
    /\ ev.op = "setIsolationLevel"
    /\ ev.res = "result"
    /\ sessions[ev.sid].isolationLevel = "REPEATABLE READ"
    /\ \E other \in DOMAIN sessions :
          /\ other # ev.sid
          /\ sessions[other].inTransaction
          /\ sessions[other].isolationLevel = "READ COMMITTED"

\* C21: the registry is one-to-one between live sessions and connections: a
\* registered session keeps its connection as long as it is registered, no
\* session is registered under an id a live session already uses, no two
\* sessions and not the committed reader share a connection, and every live
\* connection is the one of a registered session or the reader's.
C21_RegistryOneToOne ==
    [][ /\ \A id \in DOMAIN gen.sessions \cap DOMAIN gen'.sessions :
              gen'.sessions[id] = gen.sessions[id]
        /\ \A a, b \in DOMAIN gen'.sessions :
              a # b => gen'.sessions[a] # gen'.sessions[b]
        /\ \A a \in DOMAIN gen'.sessions : gen'.sessions[a] # gen'.utility
        /\ gen'.clients \ {gen'.utility} = {gen'.sessions[a] : a \in DOMAIN gen'.sessions}
      ]_vars

\* C22: every response to an execute, commit or rollback request that
\* carries no error and leaves the session IDLE was preceded by a read of
\* every demo table's committed data, published to the connected clients.
C22_BroadcastWhenIdle ==
    ( /\ gw.out.handler \in {"handleExecuteQuery", "handleCommit", "handleRollback"}
      /\ ~gw.out.error
      /\ gw.out.registered
      /\ ~gw.out.inTransaction )
    => gw.out.broadcast = DEMO_TABLES

\* C23: every error response to an execute, commit, rollback or
\* set-isolation request for a session that is registered carries the
\* session's descriptor.
C23_ErrorCarriesState ==
    ( /\ gw.out.handler \in {"handleExecuteQuery", "handleCommit", "handleRollback",
                             "handleSetIsolation"}
      /\ gw.out.error
      /\ gw.out.registered )
    => gw.out.hasState

\* C28: once a socket's disconnect has been handled and none of its
\* session-create requests is still awaited, no session created through
\* that socket is in the registry.
C28_DisconnectClosesSessions ==
    \A socket \in gw.gone :
       socket \notin gw.creating
       => \A sid \in DOMAIN sessions : gw.owner[sid] # socket

\* The operations recorded for getCommittedData.
CommittedDataOps == {"getCommittedData:" \o t : t \in TableNames}

C27_CreateSessionDescriptor ==
    [][ \A id \in SessionIds, l \in IsolationLevels \cup {Undefined} :
           createSession(id, l, TRUE)
           => /\ ev'.res = "result"
              /\ id \in DOMAIN sessions'
              /\ getSessionState(id)' =
                    [inTransaction |-> FALSE,
                     isolationLevel |-> IF l = Undefined THEN "READ COMMITTED" ELSE l]
      ]_vars

\* C27's case: a session was created at REPEATABLE READ while another one
\* is inside a transaction.
C27_Witness ==
    /\ ev.op = "createSession"
    /\ ev.res = "result"
    /\ getSessionState(ev.sid) = [inTransaction |-> FALSE, isolationLevel |-> "REPEATABLE READ"]
    /\ \E other \in DOMAIN sessions : other # ev.sid /\ InTx(other)

\* The text as the claim normalises it: trimmed, one trailing ';' stripped,
\* upper-cased.
Normalized == ToUpperCase(StripSemicolon(Trim(parsed.text)))

\* C26: the classification ignores letter case, whitespace around the text
\* and one trailing semicolon (a word in any spelling and padding gets the
\* command the word stands for), and on the normalised text it is BEGIN
\* exactly for BEGIN or BEGIN followed by a space and anything, COMMIT
\* exactly for COMMIT, ROLLBACK exactly for ROLLBACK, nothing otherwise.
C26_ClassifierIgnoresCaseAndPadding ==
    parsed.done
    => /\ parsed.command = parsed.expected
       /\ parsed.command = "BEGIN"
             <=> (Normalized = TextBegin \/ StartsWith(Normalized, TextBegin \o <<" ">>))
       /\ parsed.command = "COMMIT" <=> Normalized = TextCommit
       /\ parsed.command = "ROLLBACK" <=> Normalized = TextRollback
       /\ parsed.command \in {"BEGIN", "COMMIT", "ROLLBACK", Null}

\* C26's case: ' commit;' between whitespace is classified COMMIT.
C26_Witness ==
    /\ parsed.done
    /\ parsed.text = <<"\n", "\t">> \o ToLowerCase(TextCommit) \o <<";", " ">>
    /\ parsed.command = "COMMIT"

\* The statements that write a row.
DataStatements == {sql \in SqlInputs : sql.kind \in {"update", "insert", "delete"}}

\* What a write leaves in its row, given the row as the session saw it.
RowAfter(sql, cur) ==
    CASE sql.kind = "update" -> IF cur = NoRow THEN NoRow ELSE sql.val
      [] sql.kind = "insert" -> sql.val
      [] sql.kind = "delete" -> NoRow

\* C24: an ordinary statement executed while the session's flag says IDLE
\* leaves the session IDLE, whether it succeeded or failed; when it
\* succeeded, its write is in the committed state that a committed read
\* issued right after the call sees, and the session's connection holds no
\* uncommitted write.
C24_AutocommitWhileIdle ==
    [][ \A a \in DOMAIN sessions, sql \in DataStatements :
           (executeQuery(a, sql) /\ ~sessions[a].inTransaction)
           => /\ ~sessions'[a].inTransaction
              /\ ev'.res \in {"result", "error"}
              /\ ev'.res = "result"
                 => /\ PgSelectAll(pgTx', committed', committedReader, "accounts")[sql.row]
                          = RowAfter(sql, PgView(pgTx, committed, a)[sql.row])
                    /\ pgTx'[a].status = "none"
      ]_vars

\* Terminal t is given a pending delete, insert or update of row r.
Attributed(t, r) ==
    \/ \E i \in 1..Len(changes.result.pendingDeletes[r]) :
          changes.result.pendingDeletes[r][i] = t
    \/ \E i \in 1..Len(changes.result.pendingInserts[r]) :
          changes.result.pendingInserts[r][i].terminalId = t
    \/ \E i \in 1..Len(changes.result.cellChanges[r]) :
          changes.result.cellChanges[r][i].terminalId = t

\* C29: computePendingChanges gives a terminal a pending update, insert or
\* delete of a row only when the row's id is in that terminal's
\* modifiedRows; a row that differs from the committed one, or is missing,
\* in the terminal's snapshot without being listed yields nothing for it.
C29_OnlyModifiedRowsPending ==
    changes.done
    => \A t \in TerminalIds, r \in RowIds :
          Attributed(t, r)
          => /\ changes.uncommitted[t].present
             /\ r \in changes.uncommitted[t].modifiedRows

\* C29's case: terminal 1 still reads the old value of a row that terminal 2
\* deleted without committing and terminal 3 did not touch; only terminal 2
\* is given a pending change.
C29_Witness ==
    /\ changes.done
    /\ changes.committedRows[1] = NewVal
    /\ changes.uncommitted[1] = [present |-> TRUE, tables |-> <<SeedVal>>, modifiedRows |-> {}]
    /\ changes.uncommitted[2] = [present |-> TRUE, tables |-> <<NoRow>>, modifiedRows |-> {1}]
    /\ changes.uncommitted[3] = [present |-> TRUE, tables |-> <<NoRow>>, modifiedRows |-> {}]
    /\ ~Attributed(1, 1)
    /\ Attributed(2, 1)
    /\ ~Attributed(3, 1)

\* The ids of a log are strictly increasing from the oldest entry on.
Increasing(log) == \A i, j \in 1..Len(log) : i < j => log[i] < log[j]

\* C30: a terminal's log never holds more than 10 entries; adding an entry
\* to a full log drops the oldest one and keeps the others in their order
\* before the new entry, adding to a shorter log drops nothing, no other
\* terminal's log changes, and the new entry's id is greater than the id of
\* every entry added before.
C30_LogCappedAtTen ==
    [][\A t \in TerminalIds :
          /\ Len(store.log[t]) <= 10
          /\ Len(store'.log[t]) <= 10
          /\ Increasing(store'.log[t])
          /\ addLog(t)
             => /\ store'.log[t] =
                      (IF Len(store.log[t]) = 10 THEN Tail(store.log[t]) ELSE store.log[t])
                      \o <<store.logId>>
                /\ \A u \in TerminalIds \ {t} : store'.log[u] = store.log[u]
                /\ \A u \in TerminalIds : \A i \in 1..Len(store.log[u]) :
                      store.log[u][i] < store.logId]_vars

\* C30's case: terminal 1 received eleven entries, its log holds the last
\* ten of them.
C30_Witness ==
    /\ store.logId = 11
    /\ store.log[1] = <<1, 2, 3, 4, 5, 6, 7, 8, 9, 10>>

(* ------------------------- useCommittedData ------------------------- *)

\* The commits the database sees and the messages on their way are bounded.
MaxRows == 3
MaxChannel == 3

\* What handleDataCommitted does for one broadcast: the table's rows are
\* replaced, the other table's rows stay.
handleDataCommitted(h, event) ==
    [h EXCEPT !.data[event.table] = event.rows,
              !.handled[event.table] = event.rows]

\* One answer of the initial fetch arrives: Promise.all keeps it and, once
\* both are there, the callback replaces the rows of both tables.
fetchAnswered(h, event) ==
    LET responses == [h.responses EXCEPT ![event.table] = event.rows] IN
    IF \A table \in TableName : responses[table] # -1
    THEN [h EXCEPT !.responses = responses, !.data = responses]
    ELSE [h EXCEPT !.responses = responses]

\* The effect runs: the handler is registered and both fetches are emitted,
\* accounts first.
mount ==
    /\ ~hook.mounted
    /\ hook' = [hook EXCEPT !.mounted = TRUE, !.asked = <<"accounts", "products">>]

\* Another client's commit (or a setup) changes the committed rows of a table.
commitRows(table) ==
    /\ hook.rows[table] < MaxRows
    /\ hook' = [hook EXCEPT !.rows[table] = @ + 1]

\* `this.server.emit(WS_EVENTS.DATA_COMMITTED, event)` of a broadcast, for one
\* table: the committed rows are read and emitted to every client.
emitDataCommitted(table) ==
    /\ Len(hook.channel) < MaxChannel
    /\ hook' = [hook EXCEPT !.channel =
                  Append(@, [kind |-> "data:committed", table |-> table,
                             rows |-> hook.rows[table]])]

\* handleGetCommitted: the server answers the oldest fetch it holds with the
\* committed rows it reads.
handleGetCommitted ==
    /\ hook.asked # <<>>
    /\ Len(hook.channel) < MaxChannel
    /\ hook' = [hook EXCEPT !.asked = Tail(@),
                  !.channel = Append(@, [kind |-> "ack", table |-> Head(hook.asked),
                                         rows |-> hook.rows[Head(hook.asked)]])]

\* The browser takes the next message: a broadcast goes to the handler when
\* it is registered, an answer to the fetch's promise.
receive ==
    /\ hook.channel # <<>>
    /\ LET event == Head(hook.channel)
           h == [hook EXCEPT !.channel = Tail(@)] IN
       hook' = IF event.kind = "ack" THEN fetchAnswered(h, event)
               ELSE IF hook.mounted THEN handleDataCommitted(h, event)
               ELSE h

NextHook ==
    \/ mount /\ UNCHANGED exceptHook
    \/ \E table \in TableName : commitRows(table) /\ UNCHANGED exceptHook
    \/ \E table \in TableName : emitDataCommitted(table) /\ UNCHANGED exceptHook
    \/ handleGetCommitted /\ UNCHANGED exceptHook
    \/ receive /\ UNCHANGED exceptHook

\* The hook mounted once, against a server whose committed rows change.
SpecHook == Init /\ [][NextHook]_vars

\* C35: after closeSession returns for a registered session, the session is
\* absent from the registry and its connection has been released, whether
\* or not the ROLLBACK sent for an active transaction succeeded.
C35_CloseReleasesConnection ==
    (ev.op = "closeSession" /\ ev.pre.registered)
    => /\ ev.res = "void"
       /\ ev.sid \notin DOMAIN sessions
       /\ ev.sid \notin connected

\* How a call reports its outcome: a result, an error response, or a
\* rejected promise.
Reports(e) == e.res

\* COMMIT and ROLLBACK as SQL text.
EndTexts == {sql \in SqlInputs : CommandOf[sql] \in {"COMMIT", "ROLLBACK"}}

\* commit() or rollback() called in the state where executeQuery was called
\* can send what e says was sent, get the same verdict from the engine, end
\* with the registry s, the engine in t and d, and report as e does.
ControlMatches(id, command, s, t, d, e) ==
    ENABLED (/\ endTransaction(id, command)
             /\ sessions' = s
             /\ pgTx' = t
             /\ committed' = d
             /\ ev'.sent = e.sent
             /\ ev'.engOk = e.engOk
             /\ Reports(ev') = Reports(e)
             /\ UNCHANGED <<trackVars, partVars>>)

\* C36: COMMIT or ROLLBACK as SQL text through executeQuery is equivalent
\* to commit() or rollback(): from every session state and for every engine
\* outcome both send the same statement, leave inTransaction with the same
\* value, and both report success or both report an error.
C36_SqlPathEqualsControls ==
    [][\A id \in SessionIds, sql \in EndTexts :
          executeQuery(id, sql)
          => \E s \in {sessions'}, t \in {pgTx'}, d \in {committed'}, e \in {ev'} :
                ControlMatches(id, CommandOf[sql], s, t, d, e)]_vars

\* C37: at most one committed-reader connection is ever created, also when
\* getCommittedData and executeSetup are called before the first connection
\* has finished connecting.
C37_OneUtilityConnection == util.made <= 1

\* C37's case: a getCommittedData call awaits connect() of the client it
\* constructed while an executeSetup call has obtained the same client.
C37_Witness ==
    /\ util.made = 1
    /\ util.status = "connecting"
    /\ \E c, d \in CallerIds :
          /\ util.calls[c] = [pc |-> "connecting", kind |-> "getCommittedData", res |-> "none"]
          /\ util.calls[d] = [pc |-> "query", kind |-> "executeSetup", res |-> "none"]

\* C32: in the store a terminal's uncommitted snapshot is non-null only
\* while the terminal's session state has inTransaction = true.
C32_SnapshotOnlyInTransaction ==
    \A t \in TerminalIds :
       front.uncommitted[t] # 0
       => /\ front.sessions[t].state.present
          /\ front.sessions[t].state.inTransaction

\* A step of a store action invoked for terminal t: the part before its
\* await puts a request of t in flight, the handling of the acknowledgement
\* or rejection takes one away; clearUncommitted has no request.
ActionOf(t) ==
    \/ \E request \in front'.requests \ front.requests : request.terminalId = t
    \/ \E request \in front.requests \ front'.requests : request.terminalId = t
    \/ clearUncommitted(t)

C39_CurrentStepInRange ==
    /\ [](/\ scenario.currentStep >= 0
          /\ scenario.scenario # "null"
                => scenario.currentStep <= stepsLength(scenario.scenario)
          /\ scenario.scenario = "null" => scenario.currentStep = 0)
    /\ [][LET cur == scenario.currentStep
              len == stepsLength(scenario.scenario) IN
          /\ nextStep => scenario'.currentStep = IF cur = len THEN len ELSE cur + 1
          /\ prevStep => scenario'.currentStep = IF cur = 0 THEN 0 ELSE cur - 1
          /\ \A step \in StepInputs :
                goToStep(step) => scenario'.currentStep =
                                     IF step < 0 THEN 0 ELSE IF step > len THEN len ELSE step
          /\ scenario'.scenario # scenario.scenario => scenario'.currentStep = 0]_vars

\* C39's case: the scenario with six steps is at its conclusion step.
C39_Witness ==
    /\ scenario.scenario = "repeatable-read-protection"
    /\ scenario.currentStep = 6

\* C34: the response to a level request that start or stop sent for a
\* terminal leaves that terminal's session at the requested level: the
\* scenario's level for the terminal (READ COMMITTED where none is
\* configured) after start, READ COMMITTED after stop.
C34_ScenarioLevelsApplied ==
    [][\A request \in front.requests :
          answerSetIsolation(request)
          => /\ front'.sessions[request.terminalId].state.isolationLevel = request.level
             /\ request.level =
                   IF scenario.scenario = "null"
                   THEN DEFAULT_ISOLATION_LEVEL
                   ELSE levelFor(isolationLevels(scenario.scenario), request.terminalId)]_vars

\* C38: the rows the hook holds for a table are never older than the rows of
\* the last data:committed broadcast its handler was given for that table.
C38_BroadcastNotOverwritten ==
    \A table \in TableName : hook.data[table] >= hook.handled[table]

====
